---- MODULE Spec2Model ----
(***************************************************************************)
(* SchemaLens: ERD generation (unused-table filter, related-frame filter,  *)
(* graph builder), the environment schema diff and the code-reference      *)
(* scanner, modelled from the Python sources.                              *)
(*                                                                         *)
(* Python strings are TLA+ strings; characters are strings of length one.  *)
(***************************************************************************)
EXTENDS Integers, Sequences, FiniteSets, TLC

(***************************************************************************)
(* String primitives of the Python runtime that the sources rely on.       *)
(***************************************************************************)

\* The newline and the printable ASCII characters (the backquote left out),
\* in code-point order.
Ascii ==
    "\n !\"#$%&'()*+,-./0123456789:;<=>?@ABCDEFGHIJKLMNOPQRSTUVWXYZ[\\]^_abcdefghijklmnopqrstuvwxyz{|}~"

Upper == "ABCDEFGHIJKLMNOPQRSTUVWXYZ"

LowerLetters == "abcdefghijklmnopqrstuvwxyz"

Digits == "0123456789"

CharAt(s, i) == SubSeq(s, i, i)

\* position of character c in string s, 0 when absent
RECURSIVE IndexFrom(_, _, _)
IndexFrom(s, c, i) ==
    IF i > Len(s) THEN 0
    ELSE IF CharAt(s, i) = c THEN i ELSE IndexFrom(s, c, i + 1)

IndexOf(s, c) == IndexFrom(s, c, 1)

Chars == {CharAt(Ascii, i) : i \in 1..Len(Ascii)}

\* ord(c), as the rank of c among the characters of the model
OrdOf == [c \in Chars |-> IndexOf(Ascii, c)]

Ord(c) == OrdOf[c]

\* str.lower() on one character
LowerOf ==
    [c \in Chars |->
        LET u == IndexOf(Upper, c) IN IF u = 0 THEN c ELSE CharAt(LowerLetters, u)]

LowerChar(c) == LowerOf[c]

\* str.lower(), character by character
RECURSIVE LowerChars(_)
LowerChars(s) == IF s = "" THEN "" ELSE LowerChar(CharAt(s, 1)) \o LowerChars(Tail(s))

\* strings the model lowercases over and over, tabulated with their lowercase
Tabulated ==
    {"orders", "Order_Status", "customer", "None", "NaT", "Unknown",
     "2024-05-01 10:00:00"}

LowerTable == [s \in Tabulated |-> LowerChars(s)]

\* str.lower()
Lower(s) == IF s \in Tabulated THEN LowerTable[s] ELSE LowerChars(s)

\* Python's `needle in haystack` on strings
Contains(haystack, needle) ==
    \E i \in 1..(Len(haystack) - Len(needle) + 1) :
        SubSeq(haystack, i, i + Len(needle) - 1) = needle

\* str.endswith
EndsWith(s, suffix) ==
    /\ Len(suffix) <= Len(s)
    /\ SubSeq(s, Len(s) - Len(suffix) + 1, Len(s)) = suffix

\* Python's `<` on strings: lexicographic by code point
RECURSIVE StrLess(_, _)
StrLess(a, b) ==
    IF b = "" THEN FALSE
    ELSE IF a = "" THEN TRUE
    ELSE IF CharAt(a, 1) = CharAt(b, 1) THEN StrLess(Tail(a), Tail(b))
    ELSE Ord(CharAt(a, 1)) < Ord(CharAt(b, 1))

\* the elements of a sequence
Range(seq) == {seq[i] : i \in 1..Len(seq)}

\* sorted(set of strings)
RECURSIVE SortedStrings(_)
SortedStrings(S) ==
    IF S = {} THEN <<>>
    ELSE LET m == CHOOSE x \in S : \A y \in S \ {x} : StrLess(x, y)
         IN <<m>> \o SortedStrings(S \ {m})


(***************************************************************************)
(* Python/pandas values of the UPDATE_TIME column.                         *)
(***************************************************************************)

PyNone == [kind |-> "None", v |-> ""]

NaT == [kind |-> "NaT", v |-> ""]

PyStr(s) == [kind |-> "str", v |-> s]

Timestamp(s) == [kind |-> "Timestamp", v |-> s]

\* str(value)
StrOf(value) ==
    CASE value.kind = "None" -> "None"
      [] value.kind = "NaT" -> "NaT"
      [] OTHER -> value.v

\* pd.isna(value)
IsNa(value) == value.kind \in {"None", "NaT"}

(***************************************************************************)
(* The database behind the connection (information_schema).               *)
(***************************************************************************)

\* the environment of connection_params
Environment == "QA"

SchemaNames == {"app", "ref"}

\* the (schema, table) pairs a database of the model may hold
TableSlots ==
    {<<"app", "orders">>, <<"app", "Order_Status">>, <<"ref", "customer">>}

\* the UPDATE_TIME values information_schema.tables may deliver
UpdateTimes ==
    {PyNone, NaT, PyStr("Unknown"), Timestamp("2024-05-01 10:00:00")}

\* the columns of a table, in ordinal position
TableColumns(table) ==
    IF table = "orders" THEN <<"id", "customer_id", "status_id">> ELSE <<"id">>

\* the foreign-key rows information_schema.key_column_usage may hold
FkRow(cs, ct, cc, ps, pt, pc, name) ==
    [child_schema |-> cs, child_table |-> ct, child_column |-> cc,
     parent_schema |-> ps, parent_table |-> pt, parent_column |-> pc,
     constraint_name |-> name]

FkCandidates ==
    {FkRow("app", "orders", "customer_id", "ref", "customer", "id", "fk_orders_customer"),
     FkRow("app", "orders", "id", "ref", "customer", "id", "fk_orders_customer"),
     FkRow("app", "orders", "status_id", "app", "Order_Status", "id", "fk_orders_status")}

\* bounds of the database
MaxTables == 3

MaxFks == 2


(***************************************************************************)
(* Session state, the database, and the locals of the last handler run.    *)
(***************************************************************************)
VARIABLES
    db_tables,        \* database: (schema, table) -> UPDATE_TIME
    db_fks,           \* database: the set of foreign-key rows
    schema_metadata,  \* st.session_state.schema_metadata: cache key -> snapshot
    erd_generated,    \* st.session_state.erd_generated
    erd,              \* locals of the last ERD generation run
    refilter,         \* result of running the unused-table filter on erd.kept
    env_data,         \* environment -> what load_schema_metadata returns for its schema
    comparison,       \* (env1, env2) -> what the compare page last showed for the pair
    repo_files,       \* the files of the analysed repository
    impact,           \* result of the last table impact analysis
    unused,           \* result of the last unused-objects analysis
    org,              \* the run of _analyze_repositories_parallel: the caller's
                      \* position, the futures, and combined_results
    connected,        \* st.session_state.connected
    session,          \* st.session_state: environment, engine, available_schemas,
                      \* connection_params
    last_call,        \* what the last connect or reconnect_if_needed run did
    loads,            \* cache key -> the calls of load_schema_metadata for it since
                      \* the connection was made, and the fault of the last one
    env_connections,  \* st.session_state.env_connections: environment -> engine, params
    env_schemas,      \* st.session_state.env_schemas: environment -> schema list
    lookup            \* the header list of a frame and the headers its roles resolved to

erdVars == <<db_tables, db_fks, schema_metadata, erd_generated, erd, refilter>>

diffVars == <<env_data, comparison>>

scanVars == <<repo_files, impact, unused, org>>

sessVars == <<connected, session, last_call, loads>>

envVars == <<env_connections, env_schemas>>

roleVars == <<lookup>>

(***************************************************************************)
(* pandas frames: a header list and a list of rows (header -> value).      *)
(***************************************************************************)

Frame(columns, rows) == [columns |-> columns, rows |-> rows]

\* pd.DataFrame()
EmptyFrame == Frame(<<>>, <<>>)

\* df.empty
IsEmpty(df) == Len(df.rows) = 0

\* pd.concat(frames, ignore_index=True) if frames else pd.DataFrame()
RECURSIVE ConcatRows(_)
ConcatRows(frames) ==
    IF Len(frames) = 0 THEN <<>>
    ELSE Head(frames).rows \o ConcatRows(Tail(frames))

Concat(frames) ==
    IF Len(frames) = 0 THEN EmptyFrame
    ELSE Frame(Head(frames).columns, ConcatRows(frames))

\* df[df.apply(lambda row: (row[schema_col], row[table_col]) in table_pairs, axis=1)]
FilterFrame(df, schema_col, table_col, table_pairs) ==
    Frame(df.columns,
          SelectSeq(df.rows, LAMBDA r : <<r[schema_col], r[table_col]>> \in table_pairs))

\* mutant of FirstMatch: the last such header
RECURSIVE LastMatch(_, _, _)
LastMatch(columns, tokens, i) ==
    IF i > Len(columns) THEN 0
    ELSE LET later == LastMatch(columns, tokens, i + 1)
         IN IF later /= 0 THEN later
            ELSE IF \A t \in tokens : Contains(LowerChars(columns[i]), t) THEN i
            ELSE 0

\* the position of the first header whose lowercase contains every token, 0 if none
RECURSIVE FirstMatch(_, _, _)
FirstMatch(columns, tokens, i) ==
    IF i > Len(columns) THEN 0
    ELSE IF \A t \in tokens : Contains(LowerChars(columns[i]), t) THEN i
    ELSE FirstMatch(columns, tokens, i + 1)

(***************************************************************************)
(* services/erd_service.py: the metadata queries, per schema connection.   *)
(***************************************************************************)

\* the tables of one schema, ORDER BY table_name
SchemaTables(schema) ==
    SortedStrings({slot[2] : slot \in {s \in DOMAIN db_tables : s[1] = schema}})

\* the concatenation of the lists of a list
Flatten(lists) ==
    LET acc[i \in 0..Len(lists)] == IF i = 0 THEN <<>> ELSE acc[i - 1] \o lists[i]
    IN acc[Len(lists)]

\* the rows a query returns for a schema: those of its tables, in table order
RowsByTable(tables, rows_of) ==
    Flatten([i \in 1..Len(tables) |-> rows_of[tables[i]]])

ColsHeaders == <<"schema", "table_name", "column_name", "data_type", "is_nullable">>

fetch_columns(schema) ==
    LET tables == SchemaTables(schema)
        rows_of == [table \in Range(tables) |->
            [i \in 1..Len(TableColumns(table)) |->
                [schema |-> schema, table_name |-> table,
                 column_name |-> TableColumns(table)[i],
                 data_type |-> "int", is_nullable |-> "NO"]]]
    IN Frame(ColsHeaders, RowsByTable(tables, rows_of))

PksHeaders == <<"schema", "table_name", "column_name", "ordinal_position">>

fetch_primary_keys(schema) ==
    LET tables == SchemaTables(schema)
        rows_of == [table \in Range(tables) |->
            <<[schema |-> schema, table_name |-> table,
               column_name |-> "id", ordinal_position |-> "1"]>>]
    IN Frame(PksHeaders, RowsByTable(tables, rows_of))

FksHeaders ==
    <<"child_schema", "child_table", "child_column",
      "parent_schema", "parent_table", "parent_column", "constraint_name">>

\* rows in the order of their child column (the order the catalog lists them in)
RECURSIVE FkRowsSorted(_)
FkRowsSorted(S) ==
    IF S = {} THEN <<>>
    ELSE LET m == CHOOSE x \in S :
                     \A y \in S \ {x} : StrLess(x.child_column, y.child_column)
         IN <<m>> \o FkRowsSorted(S \ {m})

\* where k.table_schema = database() order by child_table
fetch_foreign_keys(schema) ==
    LET tables == SchemaTables(schema)
        rows_of == [table \in Range(tables) |->
            FkRowsSorted({r \in db_fks : r.child_schema = schema /\ r.child_table = table})]
    IN Frame(FksHeaders, RowsByTable(tables, rows_of))

IdxHeaders == <<"schema", "table_name", "index_name", "index_columns", "non_unique">>

fetch_indexes(schema) ==
    LET tables == SchemaTables(schema)
        rows_of == [table \in Range(tables) |->
            <<[schema |-> schema, table_name |-> table, index_name |-> "PRIMARY",
               index_columns |-> "id", non_unique |-> "0"]>>]
    IN Frame(IdxHeaders, RowsByTable(tables, rows_of))

RcHeaders == <<"schema", "table_name", "row_count">>

\* the header lists and role tokens of the metadata queries, tabulated
HeaderLists == {ColsHeaders, PksHeaders, FksHeaders, IdxHeaders, RcHeaders}

RoleTokens ==
    {{"schema"}, {"table"}, {"column"},
     {"child", "schema"}, {"child", "table"}, {"child", "column"},
     {"parent", "schema"}, {"parent", "table"}, {"parent", "column"}}

FirstMatchTable ==
    [columns \in HeaderLists |-> [tokens \in RoleTokens |-> FirstMatch(columns, tokens, 1)]]

\* next((col for col in columns if all(t in col.lower() for t in tokens)), default)
FirstHeader(columns, tokens, default) ==
    LET i == IF columns \in HeaderLists /\ tokens \in RoleTokens
             THEN FirstMatchTable[columns][tokens]
             ELSE FirstMatch(columns, tokens, 1)
    IN IF i = 0 THEN default ELSE columns[i]

fetch_row_counts(schema, include_row_counts) ==
    LET tables == SchemaTables(schema)
        rows_of == [table \in Range(tables) |->
            <<[schema |-> schema, table_name |-> table, row_count |-> "0"]>>]
    IN IF include_row_counts
       THEN Frame(RcHeaders, RowsByTable(tables, rows_of))
       ELSE Frame(RcHeaders, <<>>)


(***************************************************************************)
(* services/database_service.py: load_schema_metadata.                     *)
(***************************************************************************)

EmptySnapshot == [tables |-> <<>>, columns |-> <<>>, table_info |-> <<>>]

\* the steps of load_schema_metadata that can raise, and "none"
Faults == {"none", "engine", "connect", "tables_query", "columns_query", "show_tables"}

\* the fault of a load that fails (ok = FALSE) or does not
FaultOf(ok) == IF ok THEN "none" ELSE "connect"

\* mutant of load_schema_metadata: a failing columns query leaves the tables
LoadKeepingTables(schema, fault) ==
    LET tables == SchemaTables(schema)
        names == Range(tables)
    IN IF fault \in {"engine", "connect", "tables_query"} \/ Len(tables) = 0
       THEN EmptySnapshot
       ELSE IF fault = "columns_query"
       THEN [tables |-> tables, columns |-> <<>>, table_info |-> <<>>]
       ELSE [tables |-> tables,
             columns |-> [t \in names |-> TableColumns(t)],
             table_info |-> [t \in names |-> [last_update |-> db_tables[<<schema, t>>]]]]

\* fault: the step at which engine creation, the connection or a query raises
load_schema_metadata(schema, fault) ==
    LET tables == SchemaTables(schema)
        names == Range(tables)
    IN IF fault \in {"engine", "connect", "tables_query"}
       THEN EmptySnapshot
       ELSE IF Len(tables) > 0
       THEN IF fault = "columns_query"
            THEN EmptySnapshot
            ELSE [tables |-> tables,
                  columns |-> [t \in names |-> TableColumns(t)],
                  table_info |-> [t \in names |->
                                     [last_update |-> db_tables[<<schema, t>>]]]]
       ELSE IF fault = "show_tables"
            THEN EmptySnapshot
            ELSE [tables |-> tables, columns |-> <<>>, table_info |-> <<>>]

\* whether the step named by fault is one the load of schema executes: the
\* columns query runs for a schema with tables, SHOW TABLES for one without
Executes(schema, fault) ==
    \/ fault \in {"engine", "connect", "tables_query"}
    \/ fault = "columns_query" /\ Len(SchemaTables(schema)) > 0
    \/ fault = "show_tables" /\ Len(SchemaTables(schema)) = 0

\* the calls of load_schema_metadata so far, one more for key
RecordLoad(history, key, fault) ==
    [k \in DOMAIN history \cup {key} |->
        IF k = key
        THEN [count |-> (IF key \in DOMAIN history THEN history[key].count ELSE 0) + 1,
              fault |-> fault]
        ELSE history[k]]

(***************************************************************************)
(* ui/erd_ui.py                                                            *)
(***************************************************************************)

\* f"{environment}_{schema}"
CacheKey(schema) == Environment \o "_" \o schema

\* df[name] = value
SetColumn(df, name, value) ==
    Frame(IF name \in Range(df.columns) THEN df.columns ELSE Append(df.columns, name),
          [i \in 1..Len(df.rows) |->
              [h \in DOMAIN df.rows[i] \cup {name} |->
                  IF h = name THEN value ELSE df.rows[i][h]]])

\* the frames of the schemas that delivered rows, concatenated
Gather(sel_schemas, fetched, tag) ==
    LET frames == fetched
        tagged[i \in 1..Len(sel_schemas)] ==
            LET df == frames[i]
            IN IF IsEmpty(df) THEN <<>> ELSE <<SetColumn(df, tag, sel_schemas[i])>>
    IN Concat(Flatten(tagged))

_fetch_all_schema_metadata(sel_schemas, include_row_counts) ==
    LET n == Len(sel_schemas)
    IN [cols |-> Gather(sel_schemas, [i \in 1..n |-> fetch_columns(sel_schemas[i])],
                        "schema"),
        pks |-> Gather(sel_schemas, [i \in 1..n |-> fetch_primary_keys(sel_schemas[i])],
                       "schema"),
        fks |-> Gather(sel_schemas, [i \in 1..n |-> fetch_foreign_keys(sel_schemas[i])],
                       "child_schema"),
        idx |-> Gather(sel_schemas, [i \in 1..n |-> fetch_indexes(sel_schemas[i])],
                       "schema"),
        rc |-> Gather(sel_schemas,
                      [i \in 1..n |-> fetch_row_counts(sel_schemas[i], include_row_counts)],
                      "schema")]

\* (schema, table) pairs in the order of sort_values([schema, table])
PairLess(a, b) == StrLess(a[1], b[1]) \/ (a[1] = b[1] /\ StrLess(a[2], b[2]))

RECURSIVE SortedPairs(_)
SortedPairs(S) ==
    IF S = {} THEN <<>>
    ELSE LET m == CHOOSE x \in S : \A y \in S \ {x} : PairLess(x, y)
         IN <<m>> \o SortedPairs(S \ {m})

TableRow(pair) == [schema |-> pair[1], table_name |-> pair[2]]

\* cols[[schema_col, table_col]].drop_duplicates().sort_values(...), renamed
TablesOf(cols) ==
    LET schema_col == FirstHeader(cols.columns, {"schema"}, "")
        table_col == FirstHeader(cols.columns, {"table"}, "")
        pairs == {<<r[schema_col], r[table_col]>> : r \in Range(cols.rows)}
        sorted == SortedPairs(pairs)
    IN [i \in 1..Len(sorted) |-> TableRow(sorted[i])]

\* _collect_table_info: [cache, table_info] after visiting sel_schemas in order;
\* load_ok[schema] tells whether a load on a cache miss succeeds
RECURSIVE _collect_table_info(_, _, _, _)
_collect_table_info(sel_schemas, cache, table_info, load_ok) ==
    IF Len(sel_schemas) = 0 THEN [cache |-> cache, table_info |-> table_info]
    ELSE LET schema == Head(sel_schemas)
             cache_key == CacheKey(schema)
             hit == cache_key \in DOMAIN cache
             schema_data == IF hit THEN cache[cache_key]
                            ELSE load_schema_metadata(schema, FaultOf(load_ok[schema]))
             cache1 == IF hit THEN cache
                       ELSE [k \in DOMAIN cache \cup {cache_key} |->
                                IF k = cache_key THEN schema_data ELSE cache[k]]
             keys == {<<schema, t>> : t \in DOMAIN schema_data.table_info}
             info1 == [k \in DOMAIN table_info \cup keys |->
                          IF k \in keys THEN schema_data.table_info[k[2]]
                          ELSE table_info[k]]
         IN _collect_table_info(Tail(sel_schemas), cache1, info1, load_ok)

\* the loads _collect_table_info makes: one for each schema missing in the cache
RECURSIVE LoadsOfCollect(_, _, _, _)
LoadsOfCollect(sel_schemas, cache, history, load_ok) ==
    IF Len(sel_schemas) = 0 THEN history
    ELSE LET schema == Head(sel_schemas)
             after == IF CacheKey(schema) \in DOMAIN cache THEN history
                      ELSE RecordLoad(history, CacheKey(schema), FaultOf(load_ok[schema]))
         IN LoadsOfCollect(Tail(sel_schemas), cache, after, load_ok)

EnumKeywords ==
    {"status", "type", "category", "enum", "lookup", "reference",
     "config", "setting", "option", "code", "list", "reason",
     "complete_by", "job_truck_unit", "dispath_ordrer", "attribiute",
     "transcription_field", "entity_note"}

\* any(pattern in table_lower for pattern in keywords)
MatchesAny(table_name, keywords) ==
    LET table_lower == Lower(table_name)
    IN \E pattern \in keywords : Contains(table_lower, pattern)

TableNames == {slot[2] : slot \in TableSlots}

EnumTable == [t \in TableNames |-> MatchesAny(t, EnumKeywords)]

_is_enum_table(table_name) ==
    IF table_name \in TableNames THEN EnumTable[table_name]
    ELSE MatchesAny(table_name, EnumKeywords)

NullSentinels == {"nat", "none", "null", "unknown"}

_is_unused_table(last_update) ==
    \/ last_update = PyNone
    \/ IsNa(last_update)
    \/ Lower(StrOf(last_update)) \in NullSentinels

\* info.get('last_update') of table_info.get((schema, table), {})
LastUpdateOf(table_info, schema_name, table_name) ==
    IF <<schema_name, table_name>> \in DOMAIN table_info
    THEN table_info[<<schema_name, table_name>>].last_update
    ELSE PyNone

\* mutant of _create_exclusion_record: pd.isna is asked before `is None`
ExclusionRecordNaFirst(schema_name, table_name, last_update) ==
    [Table |-> schema_name \o "." \o table_name,
     Reason |-> IF IsNa(last_update)
                THEN "UPDATE_TIME is NaT (non-enum table)"
                ELSE IF last_update = PyNone
                THEN "No UPDATE_TIME metadata (non-enum table)"
                ELSE "UPDATE_TIME is '" \o StrOf(last_update) \o "' (non-enum table)",
     LastUpdated |-> "None"]

\* the exclusion record; its size, row and creation-time texts are left out
_create_exclusion_record(schema_name, table_name, last_update) ==
    [Table |-> schema_name \o "." \o table_name,
     Reason |-> IF last_update = PyNone
                THEN "No UPDATE_TIME metadata (non-enum table)"
                ELSE IF IsNa(last_update)
                THEN "UPDATE_TIME is NaT (non-enum table)"
                ELSE "UPDATE_TIME is '" \o StrOf(last_update) \o "' (non-enum table)",
     LastUpdated |-> "None"]

\* mutants of RowVerdict: the sentinel strings not tested; the staleness test first
RowVerdictNoSentinels(table_name, last_update) ==
    IF _is_enum_table(table_name) THEN "keep"
    ELSE IF last_update = PyNone \/ IsNa(last_update) THEN "exclude"
    ELSE "keep"

RowVerdictStaleFirst(table_name, last_update) ==
    IF _is_unused_table(last_update) THEN "exclude"
    ELSE "keep"

\* the branch the loop of _filter_unused_tables takes for one row
RowVerdict(table_name, last_update) ==
    IF _is_enum_table(table_name) THEN "keep"
    ELSE IF _is_unused_table(last_update) THEN "exclude"
    ELSE "keep"

\* mutant of FilterLoop: a kept row goes to the front of the list
FilterLoopPrepending(tables, table_info, verdicts) ==
    LET acc[i \in 0..Len(tables)] ==
            IF i = 0 THEN [kept |-> <<>>, excluded |-> <<>>]
            ELSE LET row == tables[i]
                     last_update == LastUpdateOf(table_info, row.schema, row.table_name)
                 IN IF verdicts[i] = "keep"
                    THEN [acc[i - 1] EXCEPT !.kept = <<row>> \o @]
                    ELSE [acc[i - 1] EXCEPT !.excluded =
                            Append(@, _create_exclusion_record(row.schema, row.table_name,
                                                               last_update))]
    IN acc[Len(tables)]

\* the loop of _filter_unused_tables over the rows of tables, verdicts[i]
\* being the branch row i takes
FilterLoop(tables, table_info, verdicts) ==
    LET acc[i \in 0..Len(tables)] ==
            IF i = 0 THEN [kept |-> <<>>, excluded |-> <<>>]
            ELSE LET row == tables[i]
                     last_update == LastUpdateOf(table_info, row.schema, row.table_name)
                 IN IF verdicts[i] = "keep"
                    THEN [acc[i - 1] EXCEPT !.kept = Append(@, row)]
                    ELSE [acc[i - 1] EXCEPT !.excluded =
                            Append(@, _create_exclusion_record(row.schema, row.table_name,
                                                               last_update))]
    IN acc[Len(tables)]

\* the branch each row of tables takes
RowVerdicts(tables, table_info) ==
    [i \in 1..Len(tables) |->
        RowVerdict(tables[i].table_name,
                   LastUpdateOf(table_info, tables[i].schema, tables[i].table_name))]

\* mutant of _filter_unused_tables: the loop starts at the second row
FilterFromSecondRow(tables, table_info) ==
    LET rest == IF Len(tables) = 0 THEN tables ELSE Tail(tables)
    IN FilterLoop(rest, table_info, RowVerdicts(rest, table_info))

_filter_unused_tables(tables, table_info) ==
    FilterLoop(tables, table_info, RowVerdicts(tables, table_info))

\* one frame of _filter_related_data: rows whose (schema, table) is a kept pair
RestrictFrame(df, tokens, schema_default, table_default, table_pairs) ==
    IF IsEmpty(df) THEN df
    ELSE LET schema_col == FirstHeader(df.columns, tokens \cup {"schema"}, schema_default)
             table_col == FirstHeader(df.columns, tokens \cup {"table"}, table_default)
         IN FilterFrame(df, schema_col, table_col, table_pairs)

_filter_related_data(all_data, tables_df) ==
    LET table_pairs == {<<r.schema, r.table_name>> : r \in Range(tables_df)}
    IN [cols |-> RestrictFrame(all_data.cols, {}, "schema", "table_name", table_pairs),
        pks |-> RestrictFrame(all_data.pks, {}, "schema", "table_name", table_pairs),
        idx |-> RestrictFrame(all_data.idx, {}, "schema", "table_name", table_pairs),
        rc |-> RestrictFrame(all_data.rc, {}, "schema", "table_name", table_pairs),
        fks |-> RestrictFrame(all_data.fks, {"child"}, "child_schema", "child_table",
                              table_pairs)]

\* the data _filter_and_process_tables hands back, without its 'tables' entry
_filter_and_process_tables(all_data, filtered_tables) ==
    IF Len(filtered_tables) > 0
    THEN _filter_related_data(all_data, filtered_tables)
    ELSE all_data

(***************************************************************************)
(* services/erd_service.py: build_graph.  A graph is the list of declared  *)
(* nodes (their labels left out), the cluster names and the list of edges. *)
(***************************************************************************)

NodeId(schema_name, table_name) == schema_name \o "." \o table_name

\* the rows in the order the node loop visits them
NodeRows(schema_tables, cluster_by_schema) ==
    IF cluster_by_schema
    THEN LET groups == SortedStrings({r.schema : r \in Range(schema_tables)})
         IN Flatten([i \in 1..Len(groups) |->
                        SelectSeq(schema_tables, LAMBDA r : r.schema = groups[i])])
    ELSE schema_tables

\* mutant of EdgesOf: the rows of one constraint drawn as one edge, the first
EdgesPerConstraint(fks) ==
    LET first == SelectSeq([i \in 1..Len(fks.rows) |-> i], LAMBDA i :
                     \A j \in 1..(i - 1) :
                         fks.rows[j].constraint_name /= fks.rows[i].constraint_name)
    IN [k \in 1..Len(first) |->
           LET r == fks.rows[first[k]]
           IN [tail |-> NodeId(r.child_schema, r.child_table),
               head |-> NodeId(r.parent_schema, r.parent_table),
               label |-> r.child_column \o " -> " \o r.parent_column]]

\* the edge loop: one dot.edge per row of fks
EdgesOf(fks) ==
    IF IsEmpty(fks) THEN <<>>
    ELSE LET cs == FirstHeader(fks.columns, {"child", "schema"}, "child_schema")
             ct == FirstHeader(fks.columns, {"child", "table"}, "child_table")
             cc == FirstHeader(fks.columns, {"child", "column"}, "child_column")
             ps == FirstHeader(fks.columns, {"parent", "schema"}, "parent_schema")
             pt == FirstHeader(fks.columns, {"parent", "table"}, "parent_table")
             pc == FirstHeader(fks.columns, {"parent", "column"}, "parent_column")
         IN [i \in 1..Len(fks.rows) |->
                LET r == fks.rows[i]
                IN [tail |-> NodeId(r[cs], r[ct]),
                    head |-> NodeId(r[ps], r[pt]),
                    label |-> r[cc] \o " -> " \o r[pc]]]

build_graph(schema_tables, fks, cluster_by_schema) ==
    LET rows == NodeRows(schema_tables, cluster_by_schema)
    IN [nodes |-> [i \in 1..Len(rows) |-> NodeId(rows[i].schema, rows[i].table_name)],
        clusters |-> IF cluster_by_schema
                     THEN SortedStrings({r.schema : r \in Range(schema_tables)})
                     ELSE <<>>,
        edges |-> EdgesOf(fks)]

EmptyGraph == [nodes |-> <<>>, clusters |-> <<>>, edges |-> <<>>]


(***************************************************************************)
(* aws.py: the ERD branch of the single-file application.                  *)
(***************************************************************************)

AwsEnumKeywords ==
    {"status", "type", "category", "enum", "lookup", "reference",
     "config", "setting", "option", "code", "list", "reason"}

AwsEnumTable == [t \in TableNames |-> MatchesAny(t, AwsEnumKeywords)]

AwsIsEnumTable(table_name) ==
    IF table_name \in TableNames THEN AwsEnumTable[table_name]
    ELSE MatchesAny(table_name, AwsEnumKeywords)

AwsRowVerdict(table_name, last_update) ==
    IF AwsIsEnumTable(table_name) THEN "keep"
    ELSE IF \/ last_update = PyNone
            \/ IsNa(last_update)
            \/ Lower(StrOf(last_update)) \in NullSentinels THEN "exclude"
    ELSE "keep"

\* the branch each row of tables takes in the inline filter loop
AwsRowVerdicts(tables, table_info) ==
    [i \in 1..Len(tables) |->
        AwsRowVerdict(tables[i].table_name,
                      LastUpdateOf(table_info, tables[i].schema, tables[i].table_name))]

\* "Filter other dataframes to match filtered tables": only if not tables.empty
AwsRestrict(all_data, tables) ==
    IF Len(tables) > 0 THEN _filter_related_data(all_data, tables) ELSE all_data

(***************************************************************************)
(* The state machine of ERD generation.                                    *)
(***************************************************************************)

NoData == [cols |-> EmptyFrame, pks |-> EmptyFrame, fks |-> EmptyFrame,
           idx |-> EmptyFrame, rc |-> EmptyFrame]

IdleErd ==
    [stage |-> "idle", path |-> "", sel |-> <<>>, tables |-> <<>>, table_info |-> <<>>,
     kept |-> <<>>, excluded |-> <<>>, passed |-> NoData, graph |-> EmptyGraph]

NoRefilter == [done |-> FALSE, kept |-> <<>>, excluded |-> <<>>]

\* the databases of the model
DbStates ==
    UNION {[D -> UpdateTimes] :
              D \in {S \in SUBSET TableSlots : Cardinality(S) <= MaxTables}}

\* the foreign-key catalogs a database admits: rows between its tables
FkSets(db) ==
    LET ok == {f \in FkCandidates :
                  /\ <<f.child_schema, f.child_table>> \in DOMAIN db
                  /\ <<f.parent_schema, f.parent_table>> \in DOMAIN db}
    IN {q \in SUBSET ok : Cardinality(q) <= MaxFks}

\* the selections of the schema multiselect (the button is disabled on none)
SelChoices == {<<"app">>, <<"ref">>, <<"app", "ref">>}

\* no frame's roles resolved
NoLookup == [headers |-> <<>>, kind |-> "", roles |-> <<>>, again |-> <<>>]

LookupIdle == lookup = NoLookup

\* the roles a reader of a frame resolves: the tokens a header must contain
\* and the name used when none does ("" for None)
Role(role, tokens, default) == [role |-> role, tokens |-> tokens, default |-> default]

\* services/erd_service.py: build_graph, the headers of pk_set
PkRoles ==
    {Role("schema", {"schema"}, "schema"),
     Role("table", {"table"}, "table_name"),
     Role("column", {"column"}, "column_name")}

\* services/erd_service.py: build_graph, the headers of fk_cols_map
FkRoles ==
    {Role("child_schema", {"child", "schema"}, "child_schema"),
     Role("child_table", {"child", "table"}, "child_table"),
     Role("child_column", {"child", "column"}, "child_column"),
     Role("parent_schema", {"parent", "schema"}, "parent_schema"),
     Role("parent_table", {"parent", "table"}, "parent_table"),
     Role("parent_column", {"parent", "column"}, "parent_column")}

\* ui/erd_ui.py: _filter_related_data, the headers of cols, pks, idx and rc
RelatedRoles ==
    {Role("schema", {"schema"}, "schema"),
     Role("table", {"table"}, "table_name")}

\* ui/erd_display.py: _group_primary_keys
GroupRoles ==
    PkRoles \cup {Role("ordinal", {"ordinal"}, "")}

RolesOf(kind) ==
    CASE kind = "pk_set" -> PkRoles
      [] kind = "fk_cols_map" -> FkRoles
      [] kind = "related" -> RelatedRoles
      [] kind = "group_pks" -> GroupRoles

LookupKinds == {"pk_set", "fk_cols_map", "related", "group_pks"}

\* the headers the roles of one reader resolve to
Resolve(columns, kind) ==
    [role \in {r.role : r \in RolesOf(kind)} |->
        LET r == CHOOSE r \in RolesOf(kind) : r.role = role
        IN FirstHeader(columns, r.tokens, r.default)]

\* header lists of non-empty frames: those of the metadata queries, the
\* names information_schema gives without the aliases, in either case,
\* and lists with no, several or reordered candidates for a role
HeaderChoices ==
    {ColsHeaders, PksHeaders, FksHeaders, IdxHeaders, RcHeaders,
     <<"schema", "table_name", "column_name", "data_type", "is_nullable", "char_len",
       "num_precision", "num_scale", "column_default">>,
     <<"schema", "TABLE_NAME", "COLUMN_NAME", "ORDINAL_POSITION">>,
     <<"table_schema", "table_name", "column_name">>,
     <<"TABLE_SCHEMA", "TABLE_NAME", "COLUMN_NAME", "ORDINAL_POSITION">>,
     <<"id", "name">>,
     <<"column_default", "column_name", "db_schema", "schema", "table_name">>,
     <<"parent_table", "parent_schema", "parent_column",
       "Child_Column", "Child_Table", "Child_Schema">>,
     <<"child_schema", "child_table", "CONSTRAINT_NAME">>}

RolesInit ==
    lookup \in {[NoLookup EXCEPT !.headers = headers] : headers \in HeaderChoices}

\* a reader resolves the roles of the frame
ResolveRoles(kind) ==
    /\ lookup.kind = ""
    /\ lookup' = [lookup EXCEPT !.kind = kind, !.roles = Resolve(lookup.headers, kind)]
    /\ UNCHANGED <<erdVars, diffVars, scanVars, sessVars, envVars>>

\* the same reader resolves them once more, on the next run of the script
ResolveAgain ==
    /\ lookup.kind /= ""
    /\ lookup.again = <<>>
    /\ lookup' = [lookup EXCEPT !.again = Resolve(lookup.headers, lookup.kind)]
    /\ UNCHANGED <<erdVars, diffVars, scanVars, sessVars, envVars>>

RolesNext ==
    \/ \E kind \in LookupKinds : ResolveRoles(kind)
    \/ ResolveAgain

\* a header is a candidate for a role: its lowercase contains every token
Candidate(header, tokens) ==
    \A token \in tokens : Contains(LowerChars(header), token)

ErdIdle ==
    /\ db_tables = <<>>
    /\ db_fks = {}
    /\ schema_metadata = <<>>
    /\ erd_generated = FALSE
    /\ erd = IdleErd
    /\ refilter = NoRefilter

ErdInit ==
    /\ db_tables \in DbStates
    /\ db_fks \in FkSets(db_tables)
    /\ schema_metadata = <<>>
    /\ erd_generated = FALSE
    /\ erd = IdleErd
    /\ refilter = NoRefilter

\* a load can fail only where one happens: a selected schema not in the cache
Misses(sel_schemas, schema) ==
    /\ schema \in Range(sel_schemas)
    /\ CacheKey(schema) \notin DOMAIN schema_metadata

\* ui/erd_ui.py: _handle_erd_generation; each local of the handler is bound
\* to the one value its assignment computes
GenerateErd(sel_schemas, include_row_counts, cluster_by_schema, load_ok) ==
    /\ erd.stage = "idle"
    /\ connected /\ session.connection_params /= <<>>
    /\ \A s \in SchemaNames : ~load_ok[s] => Misses(sel_schemas, s)
    /\ \E all_data \in {_fetch_all_schema_metadata(sel_schemas, include_row_counts)} :
       \E tables \in {TablesOf(all_data.cols)} :
       \E collected \in {_collect_table_info(sel_schemas, schema_metadata, <<>>, load_ok)} :
       \E result \in {_filter_unused_tables(tables, collected.table_info)} :
       \E filtered_data \in {_filter_and_process_tables(all_data, result.kept)} :
       \E run \in {[IdleErd EXCEPT !.path = "erd_ui", !.sel = sel_schemas]} :
          IF IsEmpty(all_data.cols)
          THEN /\ erd' = [run EXCEPT !.stage = "no_tables"]
               /\ UNCHANGED <<schema_metadata, erd_generated, loads>>
          ELSE /\ schema_metadata' = collected.cache
               /\ loads' = LoadsOfCollect(sel_schemas, schema_metadata, loads, load_ok)
               /\ IF Len(result.kept) = 0
                  THEN /\ erd' = [run EXCEPT !.stage = "no_active", !.tables = tables,
                                             !.table_info = collected.table_info,
                                             !.excluded = result.excluded]
                       /\ UNCHANGED erd_generated
                  ELSE /\ erd' = [run EXCEPT !.stage = "built", !.tables = tables,
                                             !.table_info = collected.table_info,
                                             !.kept = result.kept,
                                             !.excluded = result.excluded,
                                             !.passed = filtered_data,
                                             !.graph = build_graph(result.kept,
                                                                   filtered_data.fks,
                                                                   cluster_by_schema)]
                       /\ erd_generated' = TRUE
    /\ UNCHANGED <<db_tables, db_fks, refilter>>
    /\ UNCHANGED <<diffVars, scanVars, envVars, roleVars>>
    /\ UNCHANGED <<connected, session, last_call>>

\* aws.py: the run_btn branch of the ERD tab
AwsGenerateErd(sel_schemas, include_row_counts, cluster_by_schema, load_ok) ==
    /\ erd.stage = "idle"
    /\ connected /\ session.connection_params /= <<>>
    /\ \A s \in SchemaNames : ~load_ok[s] => Misses(sel_schemas, s)
    /\ \E all_data \in {_fetch_all_schema_metadata(sel_schemas, include_row_counts)} :
       \E tables \in {TablesOf(all_data.cols)} :
       \E collected \in {_collect_table_info(sel_schemas, schema_metadata, <<>>, load_ok)} :
       \E result \in {FilterLoop(tables, collected.table_info,
                                AwsRowVerdicts(tables, collected.table_info))} :
       \E filtered_data \in {AwsRestrict(all_data, result.kept)} :
       \E run \in {[IdleErd EXCEPT !.path = "aws", !.sel = sel_schemas]} :
          IF IsEmpty(all_data.cols)
          THEN /\ erd' = [run EXCEPT !.stage = "no_tables"]
               /\ UNCHANGED <<schema_metadata, erd_generated, loads>>
          ELSE /\ schema_metadata' = collected.cache
               /\ loads' = LoadsOfCollect(sel_schemas, schema_metadata, loads, load_ok)
               /\ erd' = [run EXCEPT !.stage = "built", !.tables = tables,
                                     !.table_info = collected.table_info,
                                     !.kept = result.kept,
                                     !.excluded = result.excluded,
                                     !.passed = filtered_data,
                                     !.graph = build_graph(result.kept, filtered_data.fks,
                                                           cluster_by_schema)]
               /\ erd_generated' = TRUE
    /\ UNCHANGED <<db_tables, db_fks, refilter>>
    /\ UNCHANGED <<diffVars, scanVars, envVars, roleVars>>
    /\ UNCHANGED <<connected, session, last_call>>

\* the unused-table filter applied once more, to its own kept list
RefilterKept ==
    /\ erd.path = "erd_ui"
    /\ erd.stage \in {"built", "no_active"}
    /\ ~refilter.done
    /\ LET again == _filter_unused_tables(erd.kept, erd.table_info)
       IN refilter' = [done |-> TRUE, kept |-> again.kept, excluded |-> again.excluded]
    /\ UNCHANGED <<db_tables, db_fks, schema_metadata, erd_generated, erd>>
    /\ UNCHANGED <<diffVars, scanVars, sessVars, envVars, roleVars>>

ErdNext ==
    \/ \E sel \in SelChoices, rc \in BOOLEAN, cl \in BOOLEAN,
          ok \in [SchemaNames -> BOOLEAN] : GenerateErd(sel, rc, cl, ok)
    \/ \E sel \in SelChoices, rc \in BOOLEAN, cl \in BOOLEAN,
          ok \in [SchemaNames -> BOOLEAN] : AwsGenerateErd(sel, rc, cl, ok)
    \/ RefilterKept

(***************************************************************************)
(* Properties of ERD generation.                                           *)
(***************************************************************************)

KeptPairs == {<<r.schema, r.table_name>> : r \in Range(erd.kept)}

KeptNodes == {p[1] \o "." \o p[2] : p \in KeptPairs}

\* C1: the nodes of the graph built by the erd_ui path are exactly the kept
\* tables 'schema.table', and both endpoints of every edge are such nodes.
C1_GraphOverKeptTables ==
    (erd.path = "erd_ui" /\ erd.stage = "built") =>
        /\ Range(erd.graph.nodes) = KeptNodes
        /\ \A e \in Range(erd.graph.edges) :
               e.tail \in Range(erd.graph.nodes) /\ e.head \in Range(erd.graph.nodes)

\* C22: build_graph emits exactly one edge per foreign-key row it is given,
\* in row order, from child_schema.child_table to parent_schema.parent_table,
\* labelled with the row's child and parent column; rows of one constraint or
\* of one table pair are not merged, so there are as many edges as rows.
C22_OneEdgePerFkRow ==
    erd.stage = "built" =>
        /\ Len(erd.graph.edges) = Len(erd.passed.fks.rows)
        /\ \A i \in 1..Len(erd.passed.fks.rows) :
              erd.graph.edges[i] =
                  [tail |-> erd.passed.fks.rows[i].child_schema \o "."
                                \o erd.passed.fks.rows[i].child_table,
                   head |-> erd.passed.fks.rows[i].parent_schema \o "."
                                \o erd.passed.fks.rows[i].parent_table,
                   label |-> erd.passed.fks.rows[i].child_column \o " -> "
                                 \o erd.passed.fks.rows[i].parent_column]

\* two rows of one constraint between the same two tables, and two edges
C22_Witness ==
    /\ erd.stage = "built"
    /\ Len(erd.passed.fks.rows) = 2
    /\ erd.passed.fks.rows[1].constraint_name = erd.passed.fks.rows[2].constraint_name
    /\ erd.passed.fks.rows[1].child_table = erd.passed.fks.rows[2].child_table
    /\ erd.passed.fks.rows[1].parent_table = erd.passed.fks.rows[2].parent_table
    /\ Len(erd.graph.edges) = 2
    /\ erd.graph.edges[1].tail = erd.graph.edges[2].tail
    /\ erd.graph.edges[1].head = erd.graph.edges[2].head

RowsWithin(df, pairs) ==
    \A r \in Range(df.rows) : <<r.schema, r.table_name>> \in pairs

\* C2: whenever build_graph is called, on either path, every row of the
\* columns, primary-key, index and row-count frames and every foreign-key row
\* (by its child) belongs to a kept table.
C2_FramesRestrictedToKept ==
    erd.stage = "built" =>
        /\ RowsWithin(erd.passed.cols, KeptPairs)
        /\ RowsWithin(erd.passed.pks, KeptPairs)
        /\ RowsWithin(erd.passed.idx, KeptPairs)
        /\ RowsWithin(erd.passed.rc, KeptPairs)
        /\ \A r \in Range(erd.passed.fks.rows) :
               <<r.child_schema, r.child_table>> \in KeptPairs

\* the filter of the erd_ui path has run
Filtered == erd.path = "erd_ui" /\ erd.stage \in {"built", "no_active"}

HasKeyword(table_name) ==
    \E k \in EnumKeywords : Contains(LowerChars(table_name), k)

\* the last_update the filter saw for a table: "absent" without a table_info entry
SeenUpdate(schema_name, table_name) ==
    IF <<schema_name, table_name>> \in DOMAIN erd.table_info
    THEN erd.table_info[<<schema_name, table_name>>].last_update
    ELSE [kind |-> "absent", v |-> ""]

Stale(value) ==
    \/ value.kind \in {"absent", "None", "NaT"}
    \/ LowerChars(value.v) \in {"nat", "none", "null", "unknown"}

\* C3: every kept table has an enum keyword in its lowercased name, or a
\* last_update that is present, not NaN/NaT and not a null-sentinel string.
C3_KeptIsEnumOrFresh ==
    Filtered =>
        \A r \in Range(erd.kept) :
            HasKeyword(r.table_name) \/ ~Stale(SeenUpdate(r.schema, r.table_name))

C3_Witness ==
    /\ Filtered
    /\ \E r \in Range(erd.kept) :
           HasKeyword(r.table_name) /\ Stale(SeenUpdate(r.schema, r.table_name))
    /\ \E r \in Range(erd.kept) :
           ~HasKeyword(r.table_name) /\ ~Stale(SeenUpdate(r.schema, r.table_name))

ExcludedRows == {r \in Range(erd.tables) : r \notin Range(erd.kept)}

\* C4: every excluded table has no enum keyword and a last_update that is
\* absent, None, NaN/NaT or a null-sentinel string; it has an exclusion
\* record, and no table with an enum keyword is excluded.
C4_ExcludedIsStaleNonEnum ==
    Filtered =>
        /\ \A r \in ExcludedRows :
               /\ ~HasKeyword(r.table_name)
               /\ Stale(SeenUpdate(r.schema, r.table_name))
        /\ {e.Table : e \in Range(erd.excluded)}
               = {r.schema \o "." \o r.table_name : r \in ExcludedRows}
        /\ \A r \in Range(erd.tables) : HasKeyword(r.table_name) => r \in Range(erd.kept)

C4_Witness ==
    /\ Filtered
    /\ \E r \in ExcludedRows : SeenUpdate(r.schema, r.table_name).kind = "str"
    /\ \E r \in Range(erd.kept) :
           HasKeyword(r.table_name) /\ Stale(SeenUpdate(r.schema, r.table_name))

\* the reason due to an excluded table, by the last_update the filter saw
ReasonDue(value) ==
    IF value.kind \in {"absent", "None"} THEN "No UPDATE_TIME metadata (non-enum table)"
    ELSE IF value.kind = "NaT" THEN "UPDATE_TIME is NaT (non-enum table)"
    ELSE "UPDATE_TIME is '" \o value.v \o "' (non-enum table)"

\* the positions of the exclusion records of one table
RecordsFor(r) ==
    {i \in 1..Len(erd.excluded) : erd.excluded[i].Table = r.schema \o "." \o r.table_name}

\* C24: every excluded table has exactly one exclusion record, and its reason
\* follows from the table's last_update: the "no metadata" reason for None or
\* a missing table_info entry, the "NaT" reason for NaN/NaT, and for any
\* other value the reason quoting that value; no record is there for a table
\* that was kept.
C24_OneReasonPerExcluded ==
    Filtered =>
        /\ \A r \in ExcludedRows :
               /\ Cardinality(RecordsFor(r)) = 1
               /\ \A i \in RecordsFor(r) :
                      erd.excluded[i].Reason = ReasonDue(SeenUpdate(r.schema, r.table_name))
        /\ Len(erd.excluded) = Cardinality(ExcludedRows)

\* two excluded tables, one for a NaT and one for the text Unknown
C24_Witness ==
    /\ Filtered
    /\ \E i, j \in 1..Len(erd.excluded) :
           /\ erd.excluded[i].Reason = "UPDATE_TIME is NaT (non-enum table)"
           /\ erd.excluded[j].Reason = "UPDATE_TIME is 'Unknown' (non-enum table)"

\* an excluded table without metadata: a None, or no table_info entry at all
C24_WitnessNoMetadata ==
    /\ Filtered
    /\ \E r \in ExcludedRows : SeenUpdate(r.schema, r.table_name).kind = "None"
    /\ \E r \in ExcludedRows : SeenUpdate(r.schema, r.table_name).kind = "absent"

\* how often a table row is in the kept list, and how many records name it
TimesKept(r) == Cardinality({i \in 1..Len(erd.kept) : erd.kept[i] = r})

TimesExcluded(r) == Cardinality(RecordsFor(r))

\* C27: the filter partitions its input: every input row is either once in
\* the kept list or has one exclusion record, never both; the kept list is the
\* input list without the excluded rows, in input order; and the two lengths
\* add up to the number of input tables.
C27_FilterPartitions ==
    Filtered =>
        /\ \A r \in Range(erd.tables) : TimesKept(r) + TimesExcluded(r) = 1
        /\ erd.kept = SelectSeq(erd.tables, LAMBDA r : TimesKept(r) = 1)
        /\ Len(erd.kept) + Len(erd.excluded) = Len(erd.tables)

\* two kept tables around an excluded one
C27_Witness ==
    /\ Filtered
    /\ Len(erd.tables) = 3
    /\ TimesKept(erd.tables[1]) = 1
    /\ TimesExcluded(erd.tables[2]) = 1
    /\ TimesKept(erd.tables[3]) = 1

\* C5: the filter run again on its own kept list, with the same table_info,
\* returns that list and excludes nothing.
C5_FilterIdempotent ==
    refilter.done => (refilter.kept = erd.kept /\ Len(refilter.excluded) = 0)

C5_Witness ==
    refilter.done /\ Len(erd.kept) > 0 /\ Len(erd.excluded) > 0

(***************************************************************************)
(* tabs/environment_compare.py: the schema comparison of two environments. *)
(* The glyphs of the page's labels are written by name, in brackets.       *)
(***************************************************************************)

Environments == {"DEV", "QA"}

\* the tables a compared schema may hold, in the order the bound admits them
DiffTableNames == <<"users", "orders", "items">>

MaxDiffTables == 2

DiffTables ==
    {DiffTableNames[i] : i \in 1..(IF MaxDiffTables < 3 THEN MaxDiffTables ELSE 3)}

\* the column lists a table may have in a snapshot
ColumnLists(table) ==
    CASE table = "users" -> {<<>>, <<"id", "name">>, <<"id", "name", "email">>}
      [] table = "orders" -> {<<>>, <<"id", "user_id">>, <<"user_id", "id">>}
      [] OTHER -> {<<>>, <<"id">>, <<"id", "sku">>}

\* services/database_service.py: the 'tables' and 'columns' of the snapshots
\* load_schema_metadata can return: tables in name order, and a column map
\* that is empty or has an entry for every table
Snapshots ==
    UNION {
        LET tables == SortedStrings(T)
        IN {[tables |-> tables, columns |-> <<>>]}
           \cup (IF T = {} THEN {}
                 ELSE {[tables |-> tables, columns |-> c] :
                          c \in {f \in [T -> UNION {ColumnLists(t) : t \in T}] :
                                    \A t \in T : f[t] \in ColumnLists(t)}})
        : T \in SUBSET DiffTables }

\* dict.get(key, default)
DictGet(d, key, default) == IF key \in DOMAIN d THEN d[key] ELSE default

\* sep.join(items)
RECURSIVE Join(_, _)
Join(items, sep) ==
    IF Len(items) = 0 THEN ""
    ELSE IF Len(items) = 1 THEN items[1]
    ELSE items[1] \o sep \o Join(Tail(items), sep)

\* mutant of _display_table_comparison: the second difference not taken
TableComparisonSecondWhole(env1, env2, schema1, schema2, data1, data2) ==
    LET tables1 == Range(data1.tables)
        tables2 == Range(data2.tables)
    IN [label1 |-> env1 \o " (" \o schema1 \o ")", total1 |-> Cardinality(tables1),
        label2 |-> env2 \o " (" \o schema2 \o ")", total2 |-> Cardinality(tables2),
        only_in_1 |-> tables1 \ tables2,
        only_in_2 |-> tables2,
        common |-> tables1 \cap tables2]

_display_table_comparison(env1, env2, schema1, schema2, data1, data2) ==
    LET tables1 == Range(data1.tables)
        tables2 == Range(data2.tables)
    IN [label1 |-> env1 \o " (" \o schema1 \o ")", total1 |-> Cardinality(tables1),
        label2 |-> env2 \o " (" \o schema2 \o ")", total2 |-> Cardinality(tables2),
        only_in_1 |-> tables1 \ tables2,
        only_in_2 |-> tables2 \ tables1,
        common |-> tables1 \cap tables2]

\* mutants of ColumnsDiffer: only the first side's extra columns looked at;
\* inclusion in place of inequality
ColumnsDifferOneSided(cols1, cols2) == cols1 \ cols2 /= {}

ColumnsDifferInclusion(cols1, cols2) == cols1 \subseteq cols2

\* the test `cols1 != cols2` of _display_column_comparison
ColumnsDiffer(cols1, cols2) == cols1 /= cols2

NoneCell == "[check] None"

TableHeader == "[mag] Table"

OnlyIn1Header(env1) == "[red] Only in " \o env1

OnlyIn2Header(env2) == "[yellow] Only in " \o env2

CommonHeader == "[check] Common Columns"

\* the row appended to col_diffs for one table
ColDiffRow(env1, env2, table, cols1, cols2) ==
    LET only_in_1 == cols1 \ cols2
        only_in_2 == cols2 \ cols1
    IN (TableHeader :> ("**" \o table \o "**"))
       @@ (OnlyIn1Header(env1) :>
               (IF only_in_1 /= {} THEN Join(SortedStrings(only_in_1), ", ") ELSE NoneCell))
       @@ (OnlyIn2Header(env2) :>
               (IF only_in_2 /= {} THEN Join(SortedStrings(only_in_2), ", ") ELSE NoneCell))
       @@ (CommonHeader :> Cardinality(cols1 \cap cols2))

NoColumnComparison ==
    [outcome |-> "", col_diffs |-> <<>>, tables_with_diffs |-> 0, tables_identical |-> 0]

_display_column_comparison(env1, env2, data1, data2) ==
    LET common == Range(data1.tables) \cap Range(data2.tables)
        order == SortedStrings(common)
        Cols(data, table) == Range(DictGet(data.columns, table, <<>>))
        col_diffs[i \in 0..Len(order)] ==
            IF i = 0 THEN <<>>
            ELSE LET table == order[i]
                     cols1 == Cols(data1, table)
                     cols2 == Cols(data2, table)
                 IN IF ColumnsDiffer(cols1, cols2)
                    THEN Append(col_diffs[i - 1], ColDiffRow(env1, env2, table, cols1, cols2))
                    ELSE col_diffs[i - 1]
        rows == col_diffs[Len(order)]
    IN IF common = {} THEN NoColumnComparison
       ELSE IF Len(rows) > 0
            THEN [outcome |-> "differences", col_diffs |-> rows,
                  tables_with_diffs |-> Len(rows),
                  tables_identical |-> Cardinality(common) - Len(rows)]
            ELSE [outcome |-> "identical", col_diffs |-> <<>>,
                  tables_with_diffs |-> 0, tables_identical |-> 0]

NoTableComparison ==
    [label1 |-> "", total1 |-> 0, label2 |-> "", total2 |-> 0,
     only_in_1 |-> {}, only_in_2 |-> {}, common |-> {}]

\* nothing compared yet for a pair of environments
NoComparison ==
    [shown |-> FALSE, warning |-> FALSE,
     tables |-> NoTableComparison, columns |-> NoColumnComparison]

EnvPairs == {p \in Environments \X Environments : p[1] /= p[2]}

SchemaChoices == {"", "app"}

DiffIdle ==
    /\ env_data \in [Environments -> {[tables |-> <<>>, columns |-> <<>>]}]
    /\ comparison = [p \in EnvPairs |-> NoComparison]

DiffInit ==
    /\ env_data \in [Environments -> Snapshots]
    /\ comparison = [p \in EnvPairs |-> NoComparison]

_perform_schema_comparison(env1, env2, schema1, schema2) ==
    /\ ~comparison[<<env1, env2>>].shown
    /\ ~comparison[<<env1, env2>>].warning
    /\ IF schema1 = "" \/ schema2 = ""
       THEN /\ comparison' = [comparison EXCEPT
                                 ![<<env1, env2>>] = [NoComparison EXCEPT !.warning = TRUE]]
            /\ UNCHANGED loads
       ELSE LET data1 == env_data[env1]
                data2 == env_data[env2]
            IN /\ comparison' = [comparison EXCEPT ![<<env1, env2>>] =
                      [shown |-> TRUE, warning |-> FALSE,
                       tables |-> _display_table_comparison(env1, env2, schema1, schema2,
                                                            data1, data2),
                       columns |-> _display_column_comparison(env1, env2, data1, data2)]]
               /\ loads' = RecordLoad(RecordLoad(loads, env1 \o "_" \o schema1, "none"),
                                      env2 \o "_" \o schema2, "none")
    /\ UNCHANGED env_data
    /\ UNCHANGED <<erdVars, scanVars, envVars, roleVars>>
    /\ UNCHANGED <<connected, session, last_call>>

DiffNext ==
    \E p \in EnvPairs, schema1 \in SchemaChoices, schema2 \in SchemaChoices :
        _perform_schema_comparison(p[1], p[2], schema1, schema2)

(***************************************************************************)
(* Properties of the schema comparison.                                    *)
(***************************************************************************)

\* the column set of a table in a snapshot; empty without an entry in the map
ColumnSet(data, table) ==
    IF table \in DOMAIN data.columns THEN Range(data.columns[table]) ELSE {}

\* the cell showing a set of column names
CellOf(S) == IF S = {} THEN NoneCell ELSE Join(SortedStrings(S), ", ")

RowsFor(rows, table) ==
    {i \in 1..Len(rows) : rows[i][TableHeader] = "**" \o table \o "**"}

ExampleA ==
    [tables |-> <<"orders", "users">>,
     columns |-> [t \in {"orders", "users"} |->
                     IF t = "users" THEN <<"id", "name">> ELSE <<"id", "user_id">>]]

ExampleB ==
    [tables |-> <<"users">>,
     columns |-> [t \in {"users"} |-> <<"id", "name", "email">>]]

DiffAgrees(env1, env2) ==
    LET A == env_data[env1]
        B == env_data[env2]
        shown == comparison[<<env1, env2>>]
        rows == shown.columns.col_diffs
        common == {t \in Range(A.tables) : t \in Range(B.tables)}
    IN /\ shown.tables.only_in_1 = {t \in Range(A.tables) : t \notin Range(B.tables)}
       /\ shown.tables.only_in_2 = {t \in Range(B.tables) : t \notin Range(A.tables)}
       /\ shown.tables.common = common
       /\ \A i \in 1..Len(rows) : \E t \in common : i \in RowsFor(rows, t)
       /\ \A t \in common :
              LET colsA == ColumnSet(A, t)
                  colsB == ColumnSet(B, t)
              IN IF colsA = colsB
                 THEN RowsFor(rows, t) = {}
                 ELSE /\ Cardinality(RowsFor(rows, t)) = 1
                      /\ \A i \in RowsFor(rows, t) :
                             /\ rows[i][OnlyIn1Header(env1)] = CellOf(colsA \ colsB)
                             /\ rows[i][OnlyIn2Header(env2)] = CellOf(colsB \ colsA)

\* C6: a comparison of snapshots A and B shows the two table-set differences
\* and the intersection, and for a common table a column row exactly when the
\* column sets differ, holding the two column-set differences (a table
\* without an entry in the column map has no columns); for the snapshots
\* A = {users: id, name; orders: id, user_id}, B = {users: id, name, email}
\* it shows orders only in A, nothing only in B, users common, and for users
\* nothing only in A and email only in B.
C6_DiffIsSetDifferences ==
    /\ \A p \in EnvPairs : comparison[p].shown => DiffAgrees(p[1], p[2])
    /\ (/\ comparison[<<"DEV", "QA">>].shown
        /\ env_data["DEV"] = ExampleA
        /\ env_data["QA"] = ExampleB)
       => LET shown == comparison[<<"DEV", "QA">>]
          IN /\ shown.tables.only_in_1 = {"orders"}
             /\ shown.tables.only_in_2 = {}
             /\ shown.tables.common = {"users"}
             /\ Len(shown.columns.col_diffs) = 1
             /\ shown.columns.col_diffs[1][TableHeader] = "**users**"
             /\ shown.columns.col_diffs[1]["[red] Only in DEV"] = "[check] None"
             /\ shown.columns.col_diffs[1]["[yellow] Only in QA"] = "email"

C6_Witness ==
    /\ comparison[<<"DEV", "QA">>].shown
    /\ env_data["DEV"] = ExampleA
    /\ env_data["QA"] = ExampleB

\* C7: a snapshot compared with itself shows no table on either side only,
\* all its tables as common, and no column row.
C7_SelfDiffEmpty ==
    \A p \in EnvPairs :
        (comparison[p].shown /\ env_data[p[1]] = env_data[p[2]]) =>
            /\ comparison[p].tables.only_in_1 = {}
            /\ comparison[p].tables.only_in_2 = {}
            /\ comparison[p].tables.common = Range(env_data[p[1]].tables)
            /\ Len(comparison[p].columns.col_diffs) = 0
            /\ comparison[p].columns.outcome /= "differences"

C7_Witness ==
    \E p \in EnvPairs :
        /\ comparison[p].shown
        /\ env_data[p[1]] = env_data[p[2]]
        /\ \E t \in Range(env_data[p[1]].tables) : ColumnSet(env_data[p[1]], t) /= {}

\* C8: the comparisons of A with B and of B with A show each other's
\* only-in sets swapped, the same common set, and the same column rows with
\* the two only-in cells swapped.
C8_DiffSymmetric ==
    \A p \in EnvPairs :
        LET ab == comparison[p]
            ba == comparison[<<p[2], p[1]>>]
        IN (ab.shown /\ ba.shown) =>
               /\ ab.tables.only_in_1 = ba.tables.only_in_2
               /\ ab.tables.only_in_2 = ba.tables.only_in_1
               /\ ab.tables.common = ba.tables.common
               /\ Len(ab.columns.col_diffs) = Len(ba.columns.col_diffs)
               /\ \A i \in 1..Len(ab.columns.col_diffs) :
                      LET x == ab.columns.col_diffs[i]
                          y == ba.columns.col_diffs[i]
                      IN /\ x[TableHeader] = y[TableHeader]
                         /\ x[OnlyIn1Header(p[1])] = y[OnlyIn2Header(p[1])]
                         /\ x[OnlyIn2Header(p[2])] = y[OnlyIn1Header(p[2])]
                         /\ x[CommonHeader] = y[CommonHeader]

C8_Witness ==
    /\ comparison[<<"DEV", "QA">>].shown
    /\ comparison[<<"QA", "DEV">>].shown
    /\ comparison[<<"DEV", "QA">>].tables.only_in_1 /= {}
    /\ Len(comparison[<<"DEV", "QA">>].columns.col_diffs) > 0

(***************************************************************************)
(* Python's re, as far as the scanner's patterns use it: literals, the     *)
(* escapes \b and \s, character classes, the dot, and the greedy           *)
(* quantifiers + and * on one atom; matching ignores case.                 *)
(***************************************************************************)

\* the characters \s matches, among those of the model
Whitespace == {" ", "\n"}

\* the characters \w matches
WordChars ==
    {CharAt(Upper, i) : i \in 1..Len(Upper)}
        \cup {CharAt(LowerLetters, i) : i \in 1..Len(LowerLetters)}
        \cup {CharAt(Digits, i) : i \in 1..Len(Digits)}
        \cup {"_"}

\* a string as the sequence of its characters
CharSeq(s) == [i \in 1..Len(s) |-> CharAt(s, i)]

\* str.format with positional {} fields
RECURSIVE Format(_, _)
Format(template, args) ==
    IF Len(template) < 2 THEN template
    ELSE IF SubSeq(template, 1, 2) = "{}" /\ Len(args) > 0
         THEN args[1] \o Format(SubSeq(template, 3, Len(template)), Tail(args))
         ELSE CharAt(template, 1) \o Format(Tail(template), args)

WordBoundary == [kind |-> "b", chars |-> {}, min |-> 0, many |-> FALSE]

\* one character out of a set, case ignored
Atom(S) == [kind |-> "c", chars |-> {LowerChar(x) : x \in S}, min |-> 1, many |-> FALSE]

\* the members of a character class, from position i to its closing bracket
RECURSIVE ParseClass(_, _, _)
ParseClass(p, i, acc) ==
    IF i > Len(p) THEN [chars |-> acc, next |-> i]
    ELSE IF p[i] = "]" THEN [chars |-> acc, next |-> i + 1]
    ELSE IF p[i] = "\\" /\ i < Len(p)
         THEN ParseClass(p, i + 2,
                         acc \cup (IF p[i + 1] = "s" THEN Whitespace ELSE {p[i + 1]}))
         ELSE ParseClass(p, i + 1, acc \cup {p[i]})

ParseAtom(p, i) ==
    IF p[i] = "\\" /\ i < Len(p)
    THEN [elem |-> IF p[i + 1] = "b" THEN WordBoundary
                   ELSE IF p[i + 1] = "s" THEN Atom(Whitespace)
                   ELSE Atom({p[i + 1]}),
          next |-> i + 2]
    ELSE IF p[i] = "["
         THEN LET class == ParseClass(p, i + 1, {})
              IN [elem |-> Atom(class.chars), next |-> class.next]
         ELSE IF p[i] = "."
              THEN [elem |-> Atom(Chars \ {"\n"}), next |-> i + 1]
              ELSE [elem |-> Atom({p[i]}), next |-> i + 1]

RECURSIVE ParseFrom(_, _)
ParseFrom(p, i) ==
    IF i > Len(p) THEN <<>>
    ELSE LET a == ParseAtom(p, i)
             q == IF a.next <= Len(p) THEN p[a.next] ELSE ""
         IN IF a.elem.kind = "c" /\ q = "+"
            THEN <<[a.elem EXCEPT !.many = TRUE]>> \o ParseFrom(p, a.next + 1)
            ELSE IF a.elem.kind = "c" /\ q = "*"
                 THEN <<[a.elem EXCEPT !.min = 0, !.many = TRUE]>>
                          \o ParseFrom(p, a.next + 1)
                 ELSE <<a.elem>> \o ParseFrom(p, a.next)

\* re.compile(pattern, re.IGNORECASE)
re_compile(pattern) == ParseFrom(CharSeq(pattern), 1)

IsWordAt(text, i) == i >= 1 /\ i <= Len(text) /\ text[i] \in WordChars

AtBoundary(text, pos) == IsWordAt(text, pos - 1) /= IsWordAt(text, pos)

\* how many characters from pos on are in the set
RECURSIVE RunLength(_, _, _)
RunLength(text, pos, chars) ==
    IF pos <= Len(text) /\ LowerChar(text[pos]) \in chars
    THEN 1 + RunLength(text, pos + 1, chars)
    ELSE 0

\* the position after the match of regex[k..] that begins at pos, 0 without
\* one; a repeated atom takes as many characters as it can and gives back
RECURSIVE MatchAt(_, _, _, _)
RECURSIVE TryLengths(_, _, _, _, _)
MatchAt(regex, k, text, pos) ==
    IF k > Len(regex) THEN pos
    ELSE LET e == regex[k]
         IN IF e.kind = "b"
            THEN IF AtBoundary(text, pos) THEN MatchAt(regex, k + 1, text, pos) ELSE 0
            ELSE IF ~e.many
                 THEN IF pos <= Len(text) /\ LowerChar(text[pos]) \in e.chars
                      THEN MatchAt(regex, k + 1, text, pos + 1)
                      ELSE 0
                 ELSE TryLengths(regex, k, text, pos, RunLength(text, pos, e.chars))

TryLengths(regex, k, text, pos, j) ==
    IF j < regex[k].min THEN 0
    ELSE LET end == MatchAt(regex, k + 1, text, pos + j)
         IN IF end /= 0 THEN end ELSE TryLengths(regex, k, text, pos, j - 1)

\* re.finditer: the non-overlapping matches, left to right
RECURSIVE FindIter(_, _, _)
FindIter(regex, text, start) ==
    IF start > Len(text) + 1 THEN <<>>
    ELSE LET end == MatchAt(regex, 1, text, start)
         IN IF end = 0 THEN FindIter(regex, text, start + 1)
            ELSE <<[start |-> start, end |-> end]>>
                     \o FindIter(regex, text, IF end > start THEN end ELSE start + 1)

\* str.split(sep) for a one-character separator
RECURSIVE Split(_, _)
Split(s, sep) ==
    LET i == IndexOf(s, sep)
    IN IF i = 0 THEN <<s>>
       ELSE <<SubSeq(s, 1, i - 1)>> \o Split(SubSeq(s, i + 1, Len(s)), sep)

\* mutant of Strip: only the leading whitespace goes
RECURSIVE StripLeading(_)
StripLeading(s) ==
    IF s = "" THEN s
    ELSE IF CharAt(s, 1) \in Whitespace THEN StripLeading(Tail(s))
    ELSE s

\* str.strip()
RECURSIVE Strip(_)
Strip(s) ==
    IF s = "" THEN s
    ELSE IF CharAt(s, 1) \in Whitespace THEN Strip(Tail(s))
    ELSE IF CharAt(s, Len(s)) \in Whitespace THEN Strip(SubSeq(s, 1, Len(s) - 1))
    ELSE s

(***************************************************************************)
(* services/git_analysis_service.py: CodeImpactAnalyzer.                   *)
(***************************************************************************)

\* self.table_patterns
table_patterns ==
    <<"\\b{}\\b",
      "FROM\\s+{}\\b",
      "JOIN\\s+{}\\b",
      "UPDATE\\s+{}\\b",
      "INSERT\\s+INTO\\s+{}\\b",
      "DELETE\\s+FROM\\s+{}\\b",
      "@Table\\s*\\(\\s*name\\s*=\\s*[\"\\'{}\\s*[\"\\']\\)",
      "table_name\\s*=\\s*[\"\\'{}\\s*[\"\\']\\)">>

\* mutant of _should_scan_file: every file is scanned
ScanEveryFile(file_path, file_extensions) == TRUE

\* self.column_patterns
column_patterns ==
    <<"\\b{}\\b",
      "SELECT.*{}\\b",
      "WHERE.*{}\\b",
      "ORDER\\s+BY.*{}\\b",
      "GROUP\\s+BY.*{}\\b",
      "@Column\\s*\\(\\s*name\\s*=\\s*[\"\\'{}\\s*[\"\\']\\)",
      "column\\s*=\\s*[\"\\'{}\\s*[\"\\']\\)",
      "{}\\\\.{}\\b">>

\* pattern.count('{}')
RECURSIVE CountFields(_)
CountFields(template) ==
    IF Len(template) < 2 THEN 0
    ELSE IF SubSeq(template, 1, 2) = "{}"
         THEN 1 + CountFields(SubSeq(template, 3, Len(template)))
         ELSE CountFields(Tail(template))

_format_column_patterns(table_name, column_name) ==
    [i \in 1..Len(column_patterns) |->
        IF CountFields(column_patterns[i]) = 2
        THEN Format(column_patterns[i], <<table_name, column_name>>)
        ELSE Format(column_patterns[i], <<column_name>>)]

\* [pattern.format(table_name) for pattern in self.table_patterns]
FormatPatterns(table_name) ==
    [i \in 1..Len(table_patterns) |-> Format(table_patterns[i], <<table_name>>)]

_should_scan_file(file_path, file_extensions) ==
    \E ext \in Range(file_extensions) : EndsWith(file_path, ext)

\* mutant of LineNumber: the newlines counted, one not added
LineNumberFromZero(text, start) ==
    Cardinality({i \in 1..(start - 1) : text[i] = "\n"})

\* content[:match.start()].count('\n') + 1
LineNumber(text, start) ==
    Cardinality({i \in 1..(start - 1) : text[i] = "\n"}) + 1

_find_pattern_matches_in_content(content, patterns) ==
    LET text == CharSeq(content)
        lines == Split(content, "\n")
        Record(pattern, match) ==
            LET line_num == LineNumber(text, match.start)
            IN [line |-> line_num,
                content |-> IF line_num \in 1..Len(lines) THEN Strip(lines[line_num]) ELSE "",
                pattern |-> pattern]
        PerPattern(pattern) ==
            LET found == FindIter(re_compile(pattern), text, 1)
            IN [j \in 1..Len(found) |-> Record(pattern, found[j])]
        matches[i \in 0..Len(patterns)] ==
            IF i = 0 THEN <<>> ELSE matches[i - 1] \o PerPattern(patterns[i])
    IN matches[Len(patterns)]

\* the contents a file of the model may have
FileContents ==
    {"SELECT id FROM orders WHERE id = 5",
     "select * from orders_detail",
     "x = 1\n  JOIN  Orders o ",
     "@Table(name=\"orders\")",
     "UPDATE users SET name = 1",
     "table_name = \"users\""}

\* the tables of the table impact form
TargetTables == {"orders", "users"}

\* the (table, column) pairs of the column impact form
TargetColumns == {<<"orders", "id">>, <<"users", "name">>}

\* the pattern lists of these targets, and their matches in these contents
PatternLists ==
    {FormatPatterns(table) : table \in TargetTables}
        \cup {_format_column_patterns(c[1], c[2]) : c \in TargetColumns}

MatchTable ==
    [content \in FileContents |->
        [patterns \in PatternLists |-> _find_pattern_matches_in_content(content, patterns)]]

\* self._find_pattern_matches_in_content(file_info['content'], patterns)
FindMatches(content, patterns) ==
    MatchTable[content][patterns]

\* mutant of analyze_table_impact_api: total_references counts the files
TableImpactCountingFiles(repo_data, table_name, file_extensions) ==
    LET patterns == FormatPatterns(table_name)
        files == repo_data.files
        results[i \in 0..Len(files)] ==
            IF i = 0 THEN [files |-> <<>>, total_references |-> 0]
            ELSE LET file_info == files[i]
                     before == results[i - 1]
                     matches == FindMatches(file_info.content, patterns)
                 IN IF _should_scan_file(file_info.path, file_extensions) /\ Len(matches) > 0
                    THEN [files |-> Append(before.files,
                                           [path |-> file_info.path, matches |-> matches,
                                            count |-> Len(matches)]),
                          total_references |-> before.total_references + 1]
                    ELSE before
    IN results[Len(files)]

analyze_table_impact_api(repo_data, table_name, file_extensions) ==
    LET patterns == FormatPatterns(table_name)
        files == repo_data.files
        results[i \in 0..Len(files)] ==
            IF i = 0 THEN [files |-> <<>>, total_references |-> 0]
            ELSE LET file_info == files[i]
                     before == results[i - 1]
                 IN IF _should_scan_file(file_info.path, file_extensions)
                    THEN LET matches == FindMatches(file_info.content, patterns)
                         IN IF Len(matches) > 0
                            THEN [files |-> Append(before.files,
                                                   [path |-> file_info.path,
                                                    matches |-> matches,
                                                    count |-> Len(matches)]),
                                  total_references |-> before.total_references + Len(matches)]
                            ELSE before
                    ELSE before
    IN results[Len(files)]

analyze_column_impact_api(repo_data, table_name, column_name, file_extensions) ==
    LET patterns == _format_column_patterns(table_name, column_name)
        files == repo_data.files
        results[i \in 0..Len(files)] ==
            IF i = 0 THEN [files |-> <<>>, total_references |-> 0]
            ELSE LET file_info == files[i]
                     before == results[i - 1]
                 IN IF _should_scan_file(file_info.path, file_extensions)
                    THEN LET matches == FindMatches(file_info.content, patterns)
                         IN IF Len(matches) > 0
                            THEN [files |-> Append(before.files,
                                                   [path |-> file_info.path,
                                                    matches |-> matches,
                                                    count |-> Len(matches)]),
                                  total_references |-> before.total_references + Len(matches)]
                            ELSE before
                    ELSE before
    IN results[Len(files)]

\* table.split('.')[-1]
LastSegment(name) == LET parts == Split(name, ".") IN parts[Len(parts)]

\* mutant of IsReferenced: the name looked for as a whole word
IsReferencedAsWord(name, all_code_content) ==
    Len(FindIter(re_compile("\\b" \o LowerChars(LastSegment(name)) \o "\\b"),
                 CharSeq(all_code_content), 1)) > 0

\* the test `name.split('.')[-1].lower() in all_code_content`
IsReferenced(name, all_code_content) ==
    Contains(all_code_content, LowerChars(LastSegment(name)))

\* the cap on the unused columns returned
UnusedColumnsCap == 100

\* mutant of _identify_unused_objects: the cap cuts all_columns before the test
IdentifyAmongFirstColumns(all_code_content, all_tables, all_columns) ==
    LET first_columns == SubSeq(all_columns, 1,
                                IF Len(all_columns) < UnusedColumnsCap
                                THEN Len(all_columns) ELSE UnusedColumnsCap)
    IN [unused_tables |-> SelectSeq(all_tables, LAMBDA t : ~IsReferenced(t, all_code_content)),
        unused_columns |-> SelectSeq(first_columns,
                                     LAMBDA c : ~IsReferenced(c, all_code_content)),
        total_tables |-> Len(all_tables),
        total_columns |-> Len(all_columns)]

_identify_unused_objects(all_code_content, all_tables, all_columns) ==
    LET unused_tables == SelectSeq(all_tables, LAMBDA t : ~IsReferenced(t, all_code_content))
        unused_columns == SelectSeq(all_columns, LAMBDA c : ~IsReferenced(c, all_code_content))
    IN [unused_tables |-> unused_tables,
        unused_columns |-> SubSeq(unused_columns, 1,
                                  IF Len(unused_columns) < UnusedColumnsCap
                                  THEN Len(unused_columns) ELSE UnusedColumnsCap),
        total_tables |-> Len(all_tables),
        total_columns |-> Len(all_columns)]

\* the lowercased contents of the scanned files, a newline after each
CollectContent(repo_data, file_extensions) ==
    LET files == repo_data.files
        all_code_content[i \in 0..Len(files)] ==
            IF i = 0 THEN ""
            ELSE IF _should_scan_file(files[i].path, file_extensions)
                 THEN all_code_content[i - 1] \o LowerChars(files[i].content) \o "\n"
                 ELSE all_code_content[i - 1]
    IN all_code_content[Len(files)]

find_unused_objects_api(repo_data, all_tables, all_columns, file_extensions) ==
    _identify_unused_objects(CollectContent(repo_data, file_extensions),
                             all_tables, all_columns)

(***************************************************************************)
(* The scanner applied to a repository.                                    *)
(***************************************************************************)

MaxFiles == 2

FilePaths == {"q.sql", "dao.py", "notes.txt"}

\* the file lists of a fetched repository: distinct paths, any contents
Repositories ==
    UNION {{files \in [1..n -> [path : FilePaths, content : FileContents]] :
               \A i, j \in 1..n : i /= j => files[i].path /= files[j].path}
           : n \in 0..MaxFiles}

ExtensionChoices == {<<".sql">>, <<".py", ".sql">>}

\* all_tables and all_columns are sets in the caller: any iteration order
KnownTableOrders ==
    {<<"app.orders", "app.users", "app.details">>,
     <<"app.details", "app.users", "app.orders">>}

KnownColumnOrders == {<<"app.orders.id", "app.users.email">>}

\* a database with more tables and columns than the cap on unused columns
WideTables ==
    <<"app.orders">> \o [i \in 1..(UnusedColumnsCap + 1) |-> "app.t" \o ToString(i)]

WideColumns ==
    <<"app.orders.id", "app.users.name">>
        \o [i \in 1..(UnusedColumnsCap + 1) |-> "app.wide.c" \o ToString(i)]
        \o <<"app.users.email">>

(***************************************************************************)
(* services/git_analysis_service.py: organization scanning.  The caller    *)
(* of _analyze_repositories_parallel and the workers of its executor are   *)
(* separate processes; each action is one step of one of them.             *)
(***************************************************************************)

\* ThreadPoolExecutor(max_workers=5)
MaxWorkers == 5

\* relevant_files[:20]
RepoFilesCap == 20

\* content[:5000]
ContentCap == 5000

\* the names of the repositories of the organization, most recently updated first
RepoNames == <<"api", "web", "etl", "ops", "docs">>

MaxRepos == 3

\* the lists _get_active_repositories may return
RepoLists ==
    {SubSeq(RepoNames, 1, n) :
        n \in 0..(IF MaxRepos < Len(RepoNames) THEN MaxRepos ELSE Len(RepoNames))}

\* tree_data['tree'] of a repository
RepoTree(repo) ==
    CASE repo = "api" -> <<[path |-> "src", type |-> "tree"],
                           [path |-> "src/dao.py", type |-> "blob"],
                           [path |-> "README.md", type |-> "blob"]>>
      [] repo = "web" -> <<[path |-> "app.js", type |-> "blob"],
                           [path |-> "docs/a/b/old.sql", type |-> "blob"],
                           [path |-> "lib/model/user.ts", type |-> "blob"]>>
      [] repo = "etl" -> <<[path |-> "q.sql", type |-> "blob"]>>
      [] repo = "svc1" -> [i \in 1..(RepoFilesCap + 1) |->
                              [path |-> "src/f" \o ToString(i) \o ".py", type |-> "blob"]]
      [] OTHER -> <<[path |-> "main/run.py", type |-> "blob"]>>

\* the decoded content of a file of the organization
RepoContent(path) ==
    CASE path = "src/dao.py" -> "SELECT id FROM orders"
      [] path = "app.js" -> "fetch('/users')"
      [] path = "lib/model/user.ts" -> "table_name = 'users'"
      [] path = "q.sql" -> "select * from orders"
      [] OTHER -> "run()"

key_extensions == <<".java", ".py", ".sql", ".js", ".ts">>

key_dirs == <<"src/", "main/", "service/", "controller/", "repository/", "dao/", "model/">>

_filter_relevant_files(tree_items) ==
    LET blobs == SelectSeq(tree_items, LAMBDA item :
                    /\ item.type = "blob"
                    /\ \E ext \in Range(key_extensions) : EndsWith(item.path, ext)
                    /\ \/ \E key_dir \in Range(key_dirs) : Contains(item.path, key_dir)
                       \/ Len(Split(item.path, "/")) <= 2)
    IN [i \in 1..Len(blobs) |-> blobs[i].path]

\* what the requests of one scan meet: the path whose content request fails and
\* how ("raises" for an exception, "status_404" for a response other than 200)
FetchPlans ==
    {[failing |-> "", how |-> "ok"],
     [failing |-> "lib/model/user.ts", how |-> "raises"],
     [failing |-> "app.js", how |-> "status_404"]}

\* what the tree request of a worker meets
TreeOutcomes == {"ok", "status_404", "raises"}

\* s[:n]
Take(s, n) == SubSeq(s, 1, IF n < Len(s) THEN n ELSE Len(s))

\* mutant of _analyze_github_repo_fast: the status of the tree response ignored
AnalyzeIgnoringStatus(repo, tree, plan) ==
    LET relevant_files == _filter_relevant_files(RepoTree(repo))
        fetched == SelectSeq(Take(relevant_files, RepoFilesCap),
                             LAMBDA file_path : file_path /= plan.failing)
    IN [files |-> [i \in 1..Len(fetched) |->
                      [path |-> fetched[i],
                       content |-> Take(RepoContent(fetched[i]), ContentCap),
                       size |-> Len(RepoContent(fetched[i]))]]]

\* _analyze_github_repo_fast, for a tree request that did not raise: a file
\* whose content request raises or is answered with another status is skipped
_analyze_github_repo_fast(repo, tree, plan) ==
    IF tree /= "ok" THEN [files |-> <<>>]
    ELSE LET relevant_files == _filter_relevant_files(RepoTree(repo))
             fetched == SelectSeq(Take(relevant_files, RepoFilesCap),
                                  LAMBDA file_path : file_path /= plan.failing)
         IN [files |-> [i \in 1..Len(fetched) |->
                           [path |-> fetched[i],
                            content |-> Take(RepoContent(fetched[i]), ContentCap),
                            size |-> Len(RepoContent(fetched[i]))]]]

\* analyze_single_repo: the body of a worker; any exception gives []
analyze_single_repo(repo_name, tree, plan) ==
    IF tree = "raises" THEN <<>>
    ELSE LET files == _analyze_github_repo_fast(repo_name, tree, plan).files
         IN [i \in 1..Len(files) |->
                [path |-> repo_name \o "/" \o files[i].path,
                 content |-> files[i].content,
                 size |-> files[i].size,
                 repository |-> repo_name]]

IdleOrg ==
    [pc |-> "idle", repos |-> <<>>, plan |-> [failing |-> "", how |-> "ok"],
     future |-> <<>>, tree |-> <<>>, result |-> <<>>, collected |-> <<>>,
     combined |-> [files |-> <<>>, total_repos |-> 0],
     timed_out |-> FALSE, waited_for |-> {}, starts |-> <<>>]

\* the with block is entered and every repository submitted to the executor
SubmitRepos(repos, plan) ==
    /\ org.pc = "idle"
    /\ org' = [org EXCEPT !.pc = "collecting", !.repos = repos, !.plan = plan,
                          !.future = [r \in Range(repos) |-> "queued"],
                          !.tree = [r \in Range(repos) |-> ""],
                          !.result = [r \in Range(repos) |-> <<>>],
                          !.starts = [r \in Range(repos) |-> 0],
                          !.combined = [files |-> <<>>, total_repos |-> Len(repos)]]
    /\ UNCHANGED <<repo_files, impact, unused>>
    /\ UNCHANGED <<erdVars, diffVars, sessVars, envVars, roleVars>>

\* active_repos[:10]
ActiveReposCap == 10

\* timedelta(days=180)
CutoffDays == 180

\* the names in the answer of the organization's repository listing
PoolNames == [i \in 1..(ActiveReposCap + 2) |-> "svc" \o ToString(i)]

\* response.json() of the listing: n repositories, of which the one at
\* position stale was last updated exactly at the cutoff and the one at
\* position archived is archived (0 for none)
Listing(n, stale, archived) ==
    [i \in 1..n |-> [name |-> PoolNames[i], default_branch |-> "main",
                     age_days |-> IF i = stale THEN CutoffDays ELSE 10,
                     archived |-> (i = archived)]]

Listings ==
    {Listing(n, stale, archived) :
        n \in {7, ActiveReposCap + 1, ActiveReposCap + 2},
        stale \in {0, 2}, archived \in {0, 3}}

\* _get_active_repositories, for a listing answered with status 200
_get_active_repositories(repositories) ==
    LET active_repos == SelectSeq(repositories, LAMBDA repo :
                            repo.age_days < CutoffDays /\ ~repo.archived)
    IN Take([i \in 1..Len(active_repos) |->
                [name |-> active_repos[i].name,
                 default_branch |-> active_repos[i].default_branch]],
            ActiveReposCap)

\* the runs the model follows into the executor have at most this many repositories
MaxPoolRepos == 6

\* analyze_organization up to the call of _analyze_repositories_parallel: a
\* listing answered with another status raises
ListActive(repositories, status) ==
    /\ org.pc = "idle"
    /\ IF status /= 200
       THEN org' = [org EXCEPT !.pc = "raised"]
       ELSE \E repos \in {_get_active_repositories(repositories)} :
               org' = [org EXCEPT !.pc = "listed",
                                  !.repos = [i \in 1..Len(repos) |-> repos[i].name]]
    /\ UNCHANGED <<repo_files, impact, unused>>
    /\ UNCHANGED <<erdVars, diffVars, sessVars, envVars, roleVars>>

\* the with block is entered with the listed repositories
SubmitListed ==
    /\ org.pc = "listed"
    /\ Len(org.repos) <= MaxPoolRepos
    /\ org' = [org EXCEPT !.pc = "collecting",
                          !.future = [r \in Range(org.repos) |-> "queued"],
                          !.tree = [r \in Range(org.repos) |-> ""],
                          !.result = [r \in Range(org.repos) |-> <<>>],
                          !.starts = [r \in Range(org.repos) |-> 0],
                          !.combined = [files |-> <<>>, total_repos |-> Len(org.repos)]]
    /\ UNCHANGED <<repo_files, impact, unused>>
    /\ UNCHANGED <<erdVars, diffVars, sessVars, envVars, roleVars>>

\* mutant of WorkerStart: a thread for every work item, whatever the pool size
WorkerStartUnbounded ==
    /\ org.pc \in {"collecting", "shutdown"}
    /\ \E i \in 1..Len(org.repos) :
          /\ org.future[org.repos[i]] = "queued"
          /\ \A j \in 1..(i - 1) : org.future[org.repos[j]] /= "queued"
          /\ org' = [org EXCEPT !.future[org.repos[i]] = "running",
                                !.starts[org.repos[i]] = @ + 1]
    /\ UNCHANGED <<repo_files, impact, unused>>
    /\ UNCHANGED <<erdVars, diffVars, sessVars, envVars, roleVars>>

\* a thread of the pool takes the oldest queued work item
WorkerStart ==
    /\ org.pc \in {"collecting", "shutdown"}
    /\ Cardinality({r \in DOMAIN org.future : org.future[r] = "running"}) < MaxWorkers
    /\ \E i \in 1..Len(org.repos) :
          /\ org.future[org.repos[i]] = "queued"
          /\ \A j \in 1..(i - 1) : org.future[org.repos[j]] /= "queued"
          /\ org' = [org EXCEPT !.future[org.repos[i]] = "running",
                                !.starts[org.repos[i]] = @ + 1]
    /\ UNCHANGED <<repo_files, impact, unused>>
    /\ UNCHANGED <<erdVars, diffVars, sessVars, envVars, roleVars>>

\* a worker returns from analyze_single_repo and its future is finished
WorkerFinish(repo_name, tree) ==
    /\ repo_name \in DOMAIN org.future
    /\ org.future[repo_name] = "running"
    /\ org' = [org EXCEPT !.future[repo_name] = "done",
                          !.tree[repo_name] = tree,
                          !.result[repo_name] =
                              analyze_single_repo(repo_name, tree, org.plan)]
    /\ UNCHANGED <<repo_files, impact, unused>>
    /\ UNCHANGED <<erdVars, diffVars, sessVars, envVars, roleVars>>

\* as_completed yields a finished future and the caller extends the list
CollectFuture(repo_name) ==
    /\ org.pc = "collecting"
    /\ repo_name \in DOMAIN org.future
    /\ org.future[repo_name] = "done"
    /\ repo_name \notin Range(org.collected)
    /\ org' = [org EXCEPT !.collected = Append(@, repo_name),
                          !.combined.files = @ \o org.result[repo_name]]
    /\ UNCHANGED <<repo_files, impact, unused>>
    /\ UNCHANGED <<erdVars, diffVars, sessVars, envVars, roleVars>>

\* as_completed raises TimeoutError with futures it has not yet yielded; the
\* caller passes and leaves the with block, whose exit is shutdown(wait=True)
BudgetExceeded ==
    /\ org.pc = "collecting"
    /\ Range(org.collected) /= DOMAIN org.future
    /\ org' = [org EXCEPT !.pc = "shutdown", !.timed_out = TRUE,
                          !.waited_for = {r \in DOMAIN org.future : org.future[r] /= "done"}]
    /\ UNCHANGED <<repo_files, impact, unused>>
    /\ UNCHANGED <<erdVars, diffVars, sessVars, envVars, roleVars>>

\* as_completed is exhausted
AllCollected ==
    /\ org.pc = "collecting"
    /\ Range(org.collected) = DOMAIN org.future
    /\ org' = [org EXCEPT !.pc = "shutdown"]
    /\ UNCHANGED <<repo_files, impact, unused>>
    /\ UNCHANGED <<erdVars, diffVars, sessVars, envVars, roleVars>>

\* shutdown(wait=True) has joined every thread of the pool, with every work item
\* run; the function returns combined_results
ExecutorExit ==
    /\ org.pc = "shutdown"
    /\ \A r \in DOMAIN org.future : org.future[r] = "done"
    /\ org' = [org EXCEPT !.pc = "returned"]
    /\ UNCHANGED <<repo_files, impact, unused>>
    /\ UNCHANGED <<erdVars, diffVars, sessVars, envVars, roleVars>>

OrgNext ==
    \/ \E repos \in RepoLists, plan \in FetchPlans : SubmitRepos(repos, plan)
    \/ WorkerStart
    \/ \E repo_name \in Range(RepoNames), tree \in TreeOutcomes :
          WorkerFinish(repo_name, tree)
    \/ \E repo_name \in Range(RepoNames) : CollectFuture(repo_name)
    \/ BudgetExceeded
    \/ AllCollected
    \/ ExecutorExit

\* what the tree requests of the pooled run meet
PoolTreeOutcomes == {"ok"}

PoolNext ==
    \/ \E repositories \in Listings, status \in {200, 403} :
          ListActive(repositories, status)
    \/ SubmitListed
    \/ WorkerStart
    \/ \E repo_name \in Range(PoolNames), tree \in PoolTreeOutcomes :
          WorkerFinish(repo_name, tree)
    \/ \E repo_name \in Range(PoolNames) : CollectFuture(repo_name)
    \/ BudgetExceeded
    \/ AllCollected
    \/ ExecutorExit

NoImpact ==
    [done |-> FALSE, kind |-> "", table_name |-> "", column_name |-> "",
     file_extensions |-> <<>>,
     results |-> [files |-> <<>>, total_references |-> 0]]

NoUnused ==
    [done |-> FALSE, all_tables |-> <<>>, all_columns |-> <<>>, file_extensions |-> <<>>,
     results |-> [unused_tables |-> <<>>, unused_columns |-> <<>>,
                  total_tables |-> 0, total_columns |-> 0]]

ScanIdle ==
    /\ repo_files = <<>>
    /\ impact = NoImpact
    /\ unused = NoUnused
    /\ org = IdleOrg

ScanInit ==
    /\ repo_files \in Repositories
    /\ impact = NoImpact
    /\ unused = NoUnused
    /\ org = IdleOrg

AnalyzeTableImpact(table_name, file_extensions) ==
    /\ ~impact.done
    /\ impact' = [done |-> TRUE, kind |-> "table", table_name |-> table_name,
                  column_name |-> "", file_extensions |-> file_extensions,
                  results |-> analyze_table_impact_api([files |-> repo_files],
                                                       table_name, file_extensions)]
    /\ UNCHANGED <<repo_files, unused, org>>
    /\ UNCHANGED <<erdVars, diffVars, sessVars, envVars, roleVars>>

AnalyzeColumnImpact(table_name, column_name, file_extensions) ==
    /\ ~impact.done
    /\ impact' = [done |-> TRUE, kind |-> "column", table_name |-> table_name,
                  column_name |-> column_name, file_extensions |-> file_extensions,
                  results |-> analyze_column_impact_api([files |-> repo_files], table_name,
                                                        column_name, file_extensions)]
    /\ UNCHANGED <<repo_files, unused, org>>
    /\ UNCHANGED <<erdVars, diffVars, sessVars, envVars, roleVars>>

FindUnusedObjects(all_tables, all_columns, file_extensions) ==
    /\ ~unused.done
    /\ unused' = [done |-> TRUE, all_tables |-> all_tables, all_columns |-> all_columns,
                  file_extensions |-> file_extensions,
                  results |-> find_unused_objects_api([files |-> repo_files], all_tables,
                                                      all_columns, file_extensions)]
    /\ UNCHANGED <<repo_files, impact, org>>
    /\ UNCHANGED <<erdVars, diffVars, sessVars, envVars, roleVars>>

ScanNext ==
    \/ \E t \in TargetTables, ext \in ExtensionChoices : AnalyzeTableImpact(t, ext)
    \/ \E c \in TargetColumns, ext \in ExtensionChoices :
          AnalyzeColumnImpact(c[1], c[2], ext)
    \/ \E tables \in KnownTableOrders, columns \in KnownColumnOrders,
          ext \in ExtensionChoices : FindUnusedObjects(tables, columns, ext)

\* the unused-objects scan over the wide database
WideNext ==
    \E ext \in ExtensionChoices : FindUnusedObjects(WideTables, WideColumns, ext)

(***************************************************************************)
(* Properties of the scanner.                                              *)
(***************************************************************************)

SelectLine == "SELECT id FROM orders WHERE id = 5"

\* the one-file corpus of the SELECT line was scanned for table orders
ScannedSelectLine ==
    /\ impact.done
    /\ impact.kind = "table"
    /\ impact.table_name = "orders"
    /\ repo_files = <<[path |-> "q.sql", content |-> SelectLine]>>

\* C9 as stated: scanning the one line `SELECT id FROM orders WHERE id = 5`
\* for table orders gives one file entry with exactly one recorded match,
\* that of the FROM pattern, on line 1.
C9_SingleFromMatch ==
    ScannedSelectLine =>
        /\ Len(impact.results.files) = 1
        /\ impact.results.files[1].count = 1
        /\ Len(impact.results.files[1].matches) = 1
        /\ impact.results.files[1].matches[1].line = 1
        /\ impact.results.files[1].matches[1].pattern = "FROM\\s+orders\\b"

\* C9 amended: scanning that line for table orders gives one file entry with
\* two recorded matches, both on line 1 with the line as content: first that
\* of the bare word-boundary pattern, then that of the FROM pattern; the
\* entry's count and total_references are 2.
C9_WordAndFromMatch ==
    ScannedSelectLine =>
        /\ Len(impact.results.files) = 1
        /\ impact.results.files[1].path = "q.sql"
        /\ impact.results.files[1].matches =
               <<[line |-> 1, content |-> SelectLine, pattern |-> "\\borders\\b"],
                 [line |-> 1, content |-> SelectLine, pattern |-> "FROM\\s+orders\\b"]>>
        /\ impact.results.files[1].count = 2
        /\ impact.results.total_references = 2

C9_Witness == ScannedSelectLine /\ impact.results.total_references > 0

\* the text the unused-objects run of this state searched
SearchedText == CollectContent([files |-> repo_files], unused.file_extensions)

OccursAt(text, word, i) ==
    /\ i + Len(word) - 1 <= Len(text)
    /\ SubSeq(text, i, i + Len(word) - 1) = word

\* the searched text has orders_detail, and orders nowhere else
OrdersOnlyInDetail ==
    /\ unused.done
    /\ Contains(SearchedText, "orders_detail")
    /\ \A i \in 1..Len(SearchedText) :
           OccursAt(SearchedText, "orders", i) => OccursAt(SearchedText, "orders_detail", i)

\* C10 as stated: over a corpus with orders_detail and no other occurrence
\* of orders, the known table orders is reported in unused_tables.
C10_OrdersReportedUnused ==
    OrdersOnlyInDetail => "app.orders" \in Range(unused.results.unused_tables)

\* C10 amended: over such a corpus the known table orders counts as used,
\* its name being a substring of orders_detail: it is not in unused_tables,
\* while a table whose name occurs nowhere is.
C10_OrdersCountsAsUsed ==
    OrdersOnlyInDetail =>
        /\ "app.orders" \notin Range(unused.results.unused_tables)
        /\ ~Contains(SearchedText, "users")
               => "app.users" \in Range(unused.results.unused_tables)

C10_Witness ==
    OrdersOnlyInDetail /\ "app.users" \in Range(unused.results.unused_tables)

\* the files of the repository whose path ends with an allowed extension
AllowedFiles ==
    SelectSeq(repo_files,
              LAMBDA f : \E ext \in Range(unused.file_extensions) : EndsWith(f.path, ext))

\* the lowercased contents of files, sep after each
RECURSIVE LoweredContents(_, _)
LoweredContents(files, sep) ==
    IF Len(files) = 0 THEN ""
    ELSE LowerChars(files[1].content) \o sep \o LoweredContents(Tail(files), sep)

\* the part of an identifier after its last dot, lowercased
BareName(name) ==
    LET dots == {i \in 1..Len(name) : CharAt(name, i) = "."}
        last == IF dots = {} THEN 0 ELSE CHOOSE i \in dots : \A j \in dots : j <= i
    IN LowerChars(SubSeq(name, last + 1, Len(name)))

Occurs(text, word) == \E i \in 1..(Len(text) + 1) : OccursAt(text, word, i)

\* the identifiers whose bare name does not occur in text, in the order given
AbsentFrom(names, text) == SelectSeq(names, LAMBDA n : ~Occurs(text, BareName(n)))

\* C11 as stated: the unused tables (and the unused columns, where the cap
\* does not cut them) are exactly the known ones whose bare name is not a
\* substring of the lowercased contents of the allowed files put end to end.
C11_AbsentFromConcatenation ==
    unused.done =>
        LET text == LoweredContents(AllowedFiles, "")
        IN /\ unused.results.unused_tables = AbsentFrom(unused.all_tables, text)
           /\ Len(AbsentFrom(unused.all_columns, text)) <= UnusedColumnsCap
                  => unused.results.unused_columns = AbsentFrom(unused.all_columns, text)

\* C11 amended: the unused tables (and the unused columns, where the cap does
\* not cut them) are exactly the known ones whose bare name is not a
\* substring of the text made of the lowercased contents of the allowed
\* files, each followed by a newline, so that a name never matches across
\* the end of one file and the start of the next; the result is that of the
\* same scan over the allowed files alone.
C11_AbsentFromJoinedLines ==
    unused.done =>
        LET text == LoweredContents(AllowedFiles, "\n")
        IN /\ unused.results.unused_tables = AbsentFrom(unused.all_tables, text)
           /\ Len(AbsentFrom(unused.all_columns, text)) <= UnusedColumnsCap
                  => unused.results.unused_columns = AbsentFrom(unused.all_columns, text)
           /\ unused.results =
                  find_unused_objects_api([files |-> AllowedFiles], unused.all_tables,
                                          unused.all_columns, unused.file_extensions)

\* a file outside the allowed extensions names users, and users is unused
C11_Witness ==
    /\ unused.done
    /\ \E i \in 1..Len(repo_files) :
           /\ repo_files[i].path = "notes.txt"
           /\ Occurs(LowerChars(repo_files[i].content), "users")
    /\ "app.users" \in Range(unused.results.unused_tables)
    /\ Len(AllowedFiles) > 0

RECURSIVE SumOfCounts(_)
SumOfCounts(entries) ==
    IF Len(entries) = 0 THEN 0 ELSE entries[1].count + SumOfCounts(Tail(entries))

\* C12: in the result of a table or column reference scan, every file entry
\* is that of a distinct file of the repository with an allowed extension
\* and has at least one recorded match, its count is the number of its
\* matches, and total_references is the sum of the counts.
C12_CountsAddUp ==
    impact.done =>
        LET entries == impact.results.files
        IN /\ \A i \in 1..Len(entries) :
                  /\ entries[i].count = Len(entries[i].matches)
                  /\ entries[i].count >= 1
                  /\ \E k \in 1..Len(repo_files) :
                         /\ repo_files[k].path = entries[i].path
                         /\ \E ext \in Range(impact.file_extensions) :
                                EndsWith(entries[i].path, ext)
                  /\ \A j \in 1..Len(entries) : entries[j].path = entries[i].path => j = i
           /\ impact.results.total_references = SumOfCounts(entries)

\* a column scan that recorded matches in two files
C12_Witness ==
    /\ impact.done
    /\ impact.kind = "column"
    /\ Len(impact.results.files) = 2
    /\ impact.results.total_references > impact.results.files[1].count

\* the positions of the newline characters of a text
NewlinesOf(content) == {i \in 1..Len(content) : CharAt(content, i) = "\n"}

\* the text of the source line a position lies on: from after the last newline
\* before it up to the next newline
LineAround(content, start) ==
    LET before == {i \in NewlinesOf(content) : i < start}
        after == {i \in NewlinesOf(content) : i >= start}
        b == IF before = {} THEN 0 ELSE CHOOSE i \in before : \A j \in before : j <= i
        e == IF after = {} THEN Len(content) + 1
             ELSE CHOOSE i \in after : \A j \in after : i <= j
    IN SubSeq(content, b + 1, e - 1)

\* a text without its leading and trailing whitespace
Trimmed(s) ==
    LET solid == {i \in 1..Len(s) : CharAt(s, i) \notin Whitespace}
    IN IF solid = {} THEN ""
       ELSE SubSeq(s, CHOOSE i \in solid : \A j \in solid : i <= j,
                      CHOOSE i \in solid : \A j \in solid : j <= i)

\* the patterns of the scan of this state
ScanPatterns ==
    IF impact.kind = "table" THEN FormatPatterns(impact.table_name)
    ELSE _format_column_patterns(impact.table_name, impact.column_name)

\* what the matches of one pattern in a content are to record
RecordsOf(content, pattern) ==
    LET found == FindIter(re_compile(pattern), CharSeq(content), 1)
    IN [j \in 1..Len(found) |->
           [line |-> Cardinality({i \in NewlinesOf(content) : i < found[j].start}) + 1,
            content |-> Trimmed(LineAround(content, found[j].start)),
            pattern |-> pattern]]

\* the records due for each content and pattern list of the model
RecordsDue ==
    [content \in FileContents |->
        [patterns \in PatternLists |->
            Flatten([i \in 1..Len(patterns) |-> RecordsOf(content, patterns[i])])]]

LineCount == [content \in FileContents |-> Cardinality(NewlinesOf(content)) + 1]

ContentOf(path) ==
    LET k == CHOOSE k \in 1..Len(repo_files) : repo_files[k].path = path
    IN repo_files[k].content

\* C13: the matches recorded for a file are, pattern by pattern and match by
\* match, the records with the line number one more than the number of
\* newlines before the match start, the trimmed text of that source line and
\* the pattern that matched; every line number lies between 1 and the number
\* of lines of the file.
C13_MatchRecords ==
    impact.done =>
        \A e \in Range(impact.results.files) :
            LET content == ContentOf(e.path)
            IN /\ e.matches = RecordsDue[content][ScanPatterns]
               /\ \A m \in Range(e.matches) : m.line \in 1..LineCount[content]

\* a match on the second line of a file, whose text is recorded trimmed
C13_Witness ==
    /\ impact.done
    /\ \E e \in Range(impact.results.files) :
           \E m \in Range(e.matches) :
               /\ m.line = 2
               /\ m.content /= LineAround(ContentOf(e.path), 7)
               /\ m.content = "JOIN  Orders o"

\* the ORM annotation and the assignment idiom that name a table
OrmAnnotation(table_name) == "@Table(name=\"" \o table_name \o "\")"

OrmIdiom(table_name) == "table_name = \"" \o table_name \o "\""

\* the matches recorded for a file of the repository under one pattern
MatchesUnder(path, pattern) ==
    {m \in UNION {Range(e.matches) : e \in {x \in Range(impact.results.files) : x.path = path}} :
        m.pattern = pattern}

\* C23: in table mode, a scanned file whose text contains the annotation
\* @Table(name="X") for the table X has a match recorded under the annotation
\* pattern (the seventh), and one whose text contains table_name = "X" has a
\* match recorded under the idiom pattern (the eighth).
C23_OrmIdiomsMatched ==
    (impact.done /\ impact.kind = "table") =>
        \A k \in 1..Len(repo_files) :
            _should_scan_file(repo_files[k].path, impact.file_extensions) =>
                /\ Contains(repo_files[k].content, OrmAnnotation(impact.table_name))
                      => MatchesUnder(repo_files[k].path,
                                      FormatPatterns(impact.table_name)[7]) /= {}
                /\ Contains(repo_files[k].content, OrmIdiom(impact.table_name))
                      => MatchesUnder(repo_files[k].path,
                                      FormatPatterns(impact.table_name)[8]) /= {}

\* C14: unused_columns has at most 100 entries and is the first 100 (or all,
\* if fewer) of the unused columns in the order of the input; unused_tables
\* holds every unused table, and total_tables and total_columns are the sizes
\* of the inputs.
C14_ColumnsCapped ==
    unused.done =>
        LET text == LoweredContents(AllowedFiles, "\n")
            columns == AbsentFrom(unused.all_columns, text)
        IN /\ Len(unused.results.unused_columns) <= 100
           /\ unused.results.unused_columns =
                  SubSeq(columns, 1, IF Len(columns) < 100 THEN Len(columns) ELSE 100)
           /\ unused.results.unused_tables = AbsentFrom(unused.all_tables, text)
           /\ unused.results.total_tables = Len(unused.all_tables)
           /\ unused.results.total_columns = Len(unused.all_columns)

\* more than 100 unused columns behind a used one, and more than 100 unused tables
C14_Witness ==
    /\ unused.done
    /\ Len(unused.results.unused_columns) = 100
    /\ unused.results.total_columns > 100
    /\ "app.orders.id" \notin Range(unused.results.unused_columns)
    /\ "app.users.email" \notin Range(unused.results.unused_columns)
    /\ Len(unused.results.unused_tables) > 100

(***************************************************************************)
(* ui/connection_ui.py, aws.py, utils/connection_utils.py: the connection. *)
(* What the outside does is an input of each run: whether the credentials  *)
(* are in the process environment, what the tunnel script answers, and the  *)
(* text of the error engine.connect() raises ("" if it raises none).       *)
(* st.stop() ends the run with an exception `except Exception` lets pass.   *)
(***************************************************************************)

\* st.sidebar.selectbox("Environment", ["QA", "UAT"])
ConnectEnvironments == {"QA", "UAT"}

\* config.ENVIRONMENTS[environment]["local_port"]
LocalPort(environment) == IF environment = "QA" THEN "3307" ELSE "3308"

\* config.ENVIRONMENTS[environment]["host"]
RdsHost(environment) ==
    IF environment = "QA"
    THEN "qa-db-cluster.cluster-cv4ii4ai2san.us-east-2.rds.amazonaws.com"
    ELSE "uat-ecs-prod-cluster-2024-09-26-9-55-am-mst-cluster.cluster-cpjdjlxf8yyr.us-west-2.rds.amazonaws.com"

\* CONNECTION_CONFIG["port"]
ConfigPort == "3307"

\* what execute_reconnect_scripts(environment, ENVIRONMENTS) can return
TunnelOutcomes(environment) ==
    {[success |-> TRUE, result |-> LocalPort(environment)],
     [success |-> FALSE, result |-> "/bin/sh: 1: aws: not found"],
     [success |-> FALSE, result |-> "SessionManagerPlugin is not found"],
     [success |-> FALSE, result |-> "TargetNotConnected"]}

\* str(conn_error) of what engine.connect() or the query raises, "" for nothing
ConnectErrors ==
    {"", "Can't connect to MySQL server", "Connection timed out", "Access denied for user"}

\* the rows of "show databases"
ShowDatabases == <<"information_schema", "app", "mysql", "ref">>

SystemSchemas == {"information_schema", "performance_schema", "mysql", "sys"}

\* initialize_session_state
FreshSession ==
    [environment |-> "", engine |-> "None", available_schemas |-> <<>>,
     connection_params |-> <<>>]

NoCall ==
    [op |-> "", failure |-> "", stopped |-> FALSE, raised |-> FALSE,
     lost |-> FALSE, returned |-> FALSE, attempts |-> 0,
     schema |-> "", shown |-> FALSE, active |-> <<>>, unused |-> <<>>]

\* the session fields _store_connection_state assigns
_store_connection_state(host, port, environment, available_schemas) ==
    [environment |-> environment,
     engine |-> host \o ":" \o port,
     available_schemas |-> available_schemas,
     connection_params |-> [host |-> host, port |-> port, environment |-> environment]]

\* the message tests of _handle_connection_error
IsUnreachable(conn_error) ==
    Contains(conn_error, "Connection timed out") \/ Contains(conn_error, "Can't connect")

\* the message tests of _handle_tunnel_failure
IsToolMissing(result) ==
    Contains(result, "aws: not found") \/ Contains(result, "SessionManagerPlugin is not found")

\* ui/connection_ui.py: _handle_connection, with _establish_tunnel_and_connect,
\* _handle_tunnel_failure, _test_database_connection and _handle_connection_error
_handle_connection(environment, credentials, tunnel, conn_error) ==
    LET failure == IF ~credentials THEN "credentials"
                   ELSE IF ~tunnel.success THEN "tunnel"
                   ELSE IF conn_error /= "" THEN "database"
                   ELSE "none"
        stopped == \/ failure = "credentials"
                   \/ failure = "tunnel" /\ ~IsToolMissing(tunnel.result)
        raised == failure = "database" /\ ~IsUnreachable(conn_error)
    IN /\ last_call' = [NoCall EXCEPT !.op = "connect", !.failure = failure,
                                      !.stopped = stopped, !.raised = raised]
       /\ IF failure = "none"
          THEN /\ connected' = TRUE
               /\ session' = _store_connection_state(
                                  "localhost", tunnel.result, environment,
                                  SelectSeq(ShowDatabases, LAMBDA db : db \notin SystemSchemas))
               /\ schema_metadata' = <<>>
               /\ loads' = <<>>
          ELSE /\ connected' = IF raised THEN FALSE ELSE connected
               /\ session' = [session EXCEPT !.environment = environment]
               /\ UNCHANGED <<schema_metadata, loads>>
       /\ UNCHANGED <<db_tables, db_fks, erd_generated, erd, refilter>>
       /\ UNCHANGED <<diffVars, scanVars, envVars, roleVars>>

\* aws.py: the connect_btn branch
AwsConnect(environment, credentials, tunnel, conn_error) ==
    LET direct == ~tunnel.success /\ Contains(tunnel.result, "aws: not found")
        failure == IF ~credentials THEN "credentials"
                   ELSE IF ~tunnel.success /\ ~direct THEN "tunnel"
                   ELSE IF conn_error /= "" THEN "database"
                   ELSE "none"
        stopped == failure \in {"credentials", "tunnel"}
        raised == failure = "database" /\ ~IsUnreachable(conn_error)
        host == IF direct THEN RdsHost(environment) ELSE "localhost"
    IN /\ last_call' = [NoCall EXCEPT !.op = "connect", !.failure = failure,
                                      !.stopped = stopped, !.raised = raised]
       /\ IF failure = "none"
          THEN /\ connected' = TRUE
               /\ session' = _store_connection_state(
                                  host, ConfigPort, environment,
                                  SelectSeq(ShowDatabases, LAMBDA db : db \notin SystemSchemas))
               /\ schema_metadata' = <<>>
               /\ loads' = <<>>
          ELSE /\ connected' = IF raised THEN FALSE ELSE connected
               /\ session' = [session EXCEPT !.environment = environment]
               /\ UNCHANGED <<schema_metadata, loads>>
       /\ UNCHANGED <<db_tables, db_fks, erd_generated, erd, refilter>>
       /\ UNCHANGED <<diffVars, scanVars, envVars, roleVars>>

\* range(3) of _retry_connection
MaxAttempts == 3

\* the positional parameters of execute_reconnect_scripts without a default
ParametersRequired == 2

\* the arguments _attempt_reconnect passes to execute_reconnect_scripts
ArgumentsPassed == 1

\* _retry_connection: outcomes[i] tells whether attempt i connects
_retry_connection(outcomes) ==
    LET good == {i \in 1..MaxAttempts : outcomes[i]}
    IN IF good = {} THEN [raised |-> TRUE, returned |-> FALSE, attempts |-> MaxAttempts]
       ELSE [raised |-> FALSE, returned |-> TRUE,
             attempts |-> CHOOSE i \in good : \A j \in good : i <= j]

\* _attempt_reconnect: the call of execute_reconnect_scripts raises TypeError
\* when it binds fewer arguments than the function requires
_attempt_reconnect(tunnel, outcomes) ==
    IF ArgumentsPassed < ParametersRequired
    THEN [raised |-> TRUE, returned |-> FALSE, attempts |-> 0]
    ELSE IF ~tunnel.success
    THEN [raised |-> FALSE, returned |-> FALSE, attempts |-> 0]
    ELSE _retry_connection(outcomes)

\* utils/connection_utils.py: reconnect_if_needed (aws.py:72-86 is the same);
\* test_ok tells whether _test_connection passes
reconnect_if_needed(test_ok, tunnel, outcomes) ==
    /\ IF ~connected \/ session.connection_params = <<>>
       THEN /\ last_call' = [NoCall EXCEPT !.op = "reconnect"]
            /\ UNCHANGED <<connected, session>>
       ELSE IF test_ok
       THEN /\ last_call' = [NoCall EXCEPT !.op = "reconnect", !.returned = TRUE]
            /\ UNCHANGED <<connected, session>>
       ELSE LET again == _attempt_reconnect(tunnel, outcomes)
            IN /\ last_call' = [NoCall EXCEPT !.op = "reconnect", !.lost = TRUE,
                                              !.raised = again.raised,
                                              !.returned = again.returned,
                                              !.attempts = again.attempts]
               /\ connected' = IF again.raised THEN FALSE ELSE connected
               /\ session' = IF again.returned
                             THEN [session EXCEPT !.engine =
                                      session.connection_params.host \o ":"
                                          \o session.connection_params.port]
                             ELSE session
    /\ UNCHANGED loads
    /\ UNCHANGED <<erdVars, diffVars, scanVars, envVars, roleVars>>

\* the session before the first connect, and nothing else in use
ConnInit ==
    /\ connected = FALSE
    /\ session = FreshSession
    /\ last_call = NoCall
    /\ loads = <<>>
    /\ env_connections = <<>>
    /\ env_schemas = <<>>

\* a session connected to QA through the tunnel
SessionUp ==
    /\ connected = TRUE
    /\ session = _store_connection_state(
                     "localhost", LocalPort("QA"), "QA",
                     SelectSeq(ShowDatabases, LAMBDA db : db \notin SystemSchemas))
    /\ last_call = NoCall
    /\ loads = <<>>
    /\ env_connections = <<>>
    /\ env_schemas = <<>>

ConnNext ==
    \/ \E e \in ConnectEnvironments, credentials \in BOOLEAN, conn_error \in ConnectErrors :
          \E tunnel \in TunnelOutcomes(e) :
          _handle_connection(e, credentials, tunnel, conn_error)
    \/ \E e \in ConnectEnvironments, credentials \in BOOLEAN, conn_error \in ConnectErrors :
          \E tunnel \in TunnelOutcomes(e) :
          AwsConnect(e, credentials, tunnel, conn_error)
    \/ \E test_ok \in BOOLEAN, tunnel \in TunnelOutcomes(session.environment),
          outcomes \in [1..MaxAttempts -> BOOLEAN] :
          reconnect_if_needed(test_ok, tunnel, outcomes)

(***************************************************************************)
(* The metadata cache st.session_state.schema_metadata and its users.       *)
(***************************************************************************)

\* schema_metadata[cache_key] = schema_data
Store(cache, cache_key, schema_data) ==
    [k \in DOMAIN cache \cup {cache_key} |->
        IF k = cache_key THEN schema_data ELSE cache[k]]

\* ui/query_ui.py: the keyword list of _categorize_tables
QueryEnumKeywords ==
    {"status", "type", "category", "enum", "lookup", "reference",
     "config", "setting", "option", "code", "list", "reason",
     "complete_by", "job_truck_unit", "dispatch_order", "attribute",
     "transcription_field", "entity_note", "equipment_attribute"}

\* bool(value) of a last_update value
Truthy(value) ==
    ~(value.kind = "None") /\ ~(value.kind = "str" /\ value.v = "")

\* the test that lists a table as active, for a keyword list
ListedActive(table, table_info, keywords) ==
    LET last_update == IF table \in DOMAIN table_info THEN table_info[table].last_update
                       ELSE PyNone
    IN \/ MatchesAny(table, keywords)
       \/ /\ Truthy(last_update)
          /\ ~IsNa(last_update)
          /\ Lower(StrOf(last_update)) \notin NullSentinels

\* the two lists of the "Available Tables & Columns" expander
Categorize(tables, table_info, keywords) ==
    [active |-> SelectSeq(tables, LAMBDA table : ListedActive(table, table_info, keywords)),
     unused |-> SelectSeq(tables, LAMBDA table : ~ListedActive(table, table_info, keywords))]

\* ui/query_ui.py: _categorize_tables
_categorize_tables(tables, table_info) ==
    Categorize(tables, table_info, QueryEnumKeywords)

\* what the query tab shows of a schema: nothing for an empty table list
TablesInfo(op, query_schema, schema_data, lists) ==
    [NoCall EXCEPT !.op = op, !.schema = query_schema,
                   !.shown = Len(schema_data.tables) > 0,
                   !.active = IF Len(schema_data.tables) > 0 THEN lists.active ELSE <<>>,
                   !.unused = IF Len(schema_data.tables) > 0 THEN lists.unused ELSE <<>>]

\* the entry the query tab and the compare tab make for the session's connection
CurrentEntry == [engine |-> session.engine, params |-> session.connection_params]

\* ui/query_ui.py: render_query_tab: the entry of the current connection is made
\* when env_connections is empty, an environment and a schema are selected,
\* then _load_schema_data and _render_tables_info on what it returns
_load_schema_data(query_schema, fault) ==
    /\ connected
    /\ \E current_env \in {session.connection_params.environment} :
       \E conns \in {IF env_connections = <<>>
                      THEN (current_env :> CurrentEntry) ELSE env_connections} :
       \E schemas \in {IF env_connections = <<>>
                        THEN (current_env :> session.available_schemas) @@ env_schemas
                        ELSE env_schemas} :
       \E query_env \in DOMAIN conns :
       \E cache_key \in {query_env \o "_" \o query_schema} :
       \E schema_data \in {IF cache_key \in DOMAIN schema_metadata
                            THEN schema_metadata[cache_key]
                            ELSE load_schema_metadata(query_schema, fault)} :
          /\ query_env \in DOMAIN schemas
          /\ query_schema \in Range(schemas[query_env])
          /\ env_connections' = conns
          /\ env_schemas' = schemas
          /\ IF cache_key \notin DOMAIN schema_metadata
             THEN /\ fault = "none" \/ Executes(query_schema, fault)
                  /\ schema_metadata' = Store(schema_metadata, cache_key, schema_data)
                  /\ loads' = RecordLoad(loads, cache_key, fault)
             ELSE /\ fault = "none"
                  /\ UNCHANGED <<schema_metadata, loads>>
          /\ last_call' = TablesInfo("query", query_schema, schema_data,
                                     _categorize_tables(schema_data.tables,
                                                        schema_data.table_info))
    /\ UNCHANGED <<db_tables, db_fks, erd_generated, erd, refilter>>
    /\ UNCHANGED <<connected, session>>
    /\ UNCHANGED <<diffVars, scanVars, roleVars>>

\* mutant of _load_schema_metadata_for_analysis: the cache is not consulted
AnalysisAlwaysLoading(selected_schema, fault) ==
    /\ connected
    /\ fault = "none" \/ Executes(selected_schema, fault)
    /\ \E cache_key \in {session.connection_params.environment \o "_" \o selected_schema} :
          /\ schema_metadata' =
               Store(schema_metadata, cache_key, load_schema_metadata(selected_schema, fault))
          /\ loads' = RecordLoad(loads, cache_key, fault)
    /\ last_call' = [NoCall EXCEPT !.op = "impact"]
    /\ UNCHANGED <<db_tables, db_fks, erd_generated, erd, refilter>>
    /\ UNCHANGED <<connected, session>>
    /\ UNCHANGED <<diffVars, scanVars, envVars, roleVars>>

\* ui/impact_analysis_ui.py: _load_schema_metadata_for_analysis
_load_schema_metadata_for_analysis(selected_schema, fault) ==
    /\ connected
    /\ \E cache_key \in {session.connection_params.environment \o "_" \o selected_schema} :
          IF cache_key \notin DOMAIN schema_metadata
          THEN /\ fault = "none" \/ Executes(selected_schema, fault)
               /\ schema_metadata' =
                    Store(schema_metadata, cache_key,
                          load_schema_metadata(selected_schema, fault))
               /\ loads' = RecordLoad(loads, cache_key, fault)
          ELSE /\ fault = "none"
               /\ UNCHANGED <<schema_metadata, loads>>
    /\ last_call' = [NoCall EXCEPT !.op = "impact"]
    /\ UNCHANGED <<db_tables, db_fks, erd_generated, erd, refilter>>
    /\ UNCHANGED <<connected, session>>
    /\ UNCHANGED <<diffVars, scanVars, envVars, roleVars>>

\* a database with tables in app and none in ref, and two environments to compare
CacheInit ==
    /\ db_tables = (<<"app", "orders">> :> Timestamp("2024-05-01 10:00:00"))
    /\ db_fks = {}
    /\ schema_metadata = <<>>
    /\ erd_generated = FALSE
    /\ erd = IdleErd
    /\ refilter = NoRefilter
    /\ env_data = [e \in Environments |->
                     [tables |-> <<"users">>, columns |-> ("users" :> <<"id", "name">>)]]
    /\ comparison = [p \in EnvPairs |-> NoComparison]

CacheNext ==
    \/ \E query_schema \in SchemaNames, fault \in Faults :
          _load_schema_data(query_schema, fault)
    \/ \E selected_schema \in SchemaNames, fault \in Faults :
          _load_schema_metadata_for_analysis(selected_schema, fault)
    \/ \E sel \in SelChoices, ok \in [SchemaNames -> BOOLEAN] :
          GenerateErd(sel, FALSE, TRUE, ok)
    \/ \E pair \in EnvPairs, schema1 \in SchemaChoices, schema2 \in SchemaChoices :
          _perform_schema_comparison(pair[1], pair[2], schema1, schema2)
    \/ _handle_connection("QA", TRUE, [success |-> TRUE, result |-> LocalPort("QA")], "")

\* the tables of the two tabs' databases: a plain one, two of the enum tables
\* the keyword lists were extended for, and one with a keyword of every list
TabSlots ==
    {<<"app", "orders">>, <<"app", "dispatch_order">>, <<"app", "equipment_attribute">>,
     <<"app", "Order_Status">>}

MaxTabTables == 2

TabDbStates ==
    UNION {[D -> UpdateTimes] :
              D \in {S \in SUBSET TabSlots : Cardinality(S) <= MaxTabTables}}

TabsInit ==
    /\ db_tables \in TabDbStates
    /\ db_fks = {}
    /\ schema_metadata = <<>>
    /\ erd_generated = FALSE
    /\ erd = IdleErd
    /\ refilter = NoRefilter

TabsNext ==
    \/ \E query_schema \in SchemaNames, fault \in {"none", "connect"} :
          _load_schema_data(query_schema, fault)
    \/ \E sel \in SelChoices, ok \in [SchemaNames -> BOOLEAN] :
          GenerateErd(sel, FALSE, FALSE, ok)

\* the tables of the ERD run that the query tab listed
ListedRows ==
    {r \in Range(erd.tables) :
        /\ r.schema = last_call.schema
        /\ r.table_name \in Range(last_call.active) \cup Range(last_call.unused)}

\* C25: a table the query tab lists is listed as active if and only if the
\* unused-table filter of the ERD tab, run on the same database with the same
\* cached metadata, keeps it.
C25_QueryTabAgreesWithErd ==
    (Filtered /\ last_call.op = "query" /\ last_call.shown) =>
        \A r \in ListedRows :
            (r.table_name \in Range(last_call.active)) <=> (r \in Range(erd.kept))

(***************************************************************************)
(* tabs/environment_compare.py: the connections of the compare tab.        *)
(***************************************************************************)

\* the entries of d without the key k
Without(d, k) == [x \in DOMAIN d \ {k} |-> d[x]]

\* _render_comparison_environment: the environment offered for comparison
ComparisonEnvironment ==
    IF connected
    THEN IF session.connection_params.environment = "QA" THEN "UAT" ELSE "QA"
    ELSE "UAT"

\* render_environment_compare_tab without a button pressed, the tabs being
\* rendered for a connected session: _render_base_environment makes the entry
\* of the current connection
render_environment_compare_tab ==
    /\ connected
    /\ IF connected /\ session.connection_params.environment \notin DOMAIN env_connections
       THEN /\ env_connections' =
                 (session.connection_params.environment :> CurrentEntry) @@ env_connections
            /\ env_schemas' =
                 (session.connection_params.environment :> session.available_schemas)
                     @@ env_schemas
       ELSE UNCHANGED envVars
    /\ UNCHANGED <<erdVars, diffVars, scanVars, sessVars, roleVars>>

\* the "Connect to env2" button: _handle_second_environment_connection with
\* _establish_second_environment_connection
_handle_second_environment_connection(aws_credentials2, tunnel, conn_error) ==
    /\ connected
    /\ ComparisonEnvironment \notin DOMAIN env_connections
    /\ IF aws_credentials2 /\ tunnel.success /\ conn_error = ""
       THEN /\ env_connections' =
                 (ComparisonEnvironment :>
                     [engine |-> "localhost:" \o tunnel.result,
                      params |-> [host |-> "localhost", port |-> tunnel.result]])
                     @@ env_connections
            /\ env_schemas' =
                 (ComparisonEnvironment :>
                     SelectSeq(ShowDatabases, LAMBDA db : db \notin SystemSchemas))
                     @@ env_schemas
       ELSE UNCHANGED envVars
    /\ UNCHANGED <<erdVars, diffVars, scanVars, sessVars, roleVars>>

\* the "Disconnect env2" button of _render_disconnect_interface
DisconnectComparison ==
    /\ connected
    /\ ComparisonEnvironment \in DOMAIN env_connections
    /\ env_connections' = Without(env_connections, ComparisonEnvironment)
    /\ env_schemas' = Without(env_schemas, ComparisonEnvironment)
    /\ UNCHANGED <<erdVars, diffVars, scanVars, sessVars, roleVars>>

\* connects from the sidebar, reconnects, and renders of the two tabs
EnvNext ==
    \/ \E e \in ConnectEnvironments, conn_error \in {"", "Access denied for user"} :
          _handle_connection(e, TRUE, [success |-> TRUE, result |-> LocalPort(e)], conn_error)
    \/ \E test_ok \in BOOLEAN, tunnel \in TunnelOutcomes(session.environment),
          outcomes \in [1..MaxAttempts -> BOOLEAN] :
          reconnect_if_needed(test_ok, tunnel, outcomes)
    \/ render_environment_compare_tab
    \/ \E aws_credentials2 \in BOOLEAN, conn_error \in {"", "Access denied for user"} :
          \E tunnel \in TunnelOutcomes(ComparisonEnvironment) :
             _handle_second_environment_connection(aws_credentials2, tunnel, conn_error)
    \/ DisconnectComparison
    \/ \E query_schema \in SchemaNames : _load_schema_data(query_schema, "none")

\* C30: whenever the session is connected and the current environment has
\* an entry in env_connections, the entry's engine and params are the
\* session's engine and connection_params, and env_schemas of the current
\* environment is available_schemas.
C30_CurrentEntryIsSession ==
    (connected /\ session.connection_params.environment \in DOMAIN env_connections) =>
        /\ env_connections[session.connection_params.environment] = CurrentEntry
        /\ session.connection_params.environment \in DOMAIN env_schemas
        /\ env_schemas[session.connection_params.environment] = session.available_schemas

(***************************************************************************)
(* Properties of the connection                                            *)
(***************************************************************************)

\* C15: after a connect attempt that fails (missing credentials, a tunnel
\* failure of any category, a database connection failure), whatever the
\* session was before, the session's connected flag is False.
C15_FailedConnectDisconnects ==
    (last_call.op = "connect" /\ last_call.failure /= "none") => ~connected

\* C16: when reconnect_if_needed finds the connection lost it makes at least
\* one and at most three connection attempts, and when it returns False the
\* session's connected flag is cleared.
C16_ReconnectTriesOneToThree ==
    (last_call.op = "reconnect" /\ last_call.lost) =>
        /\ last_call.attempts \in 1..MaxAttempts
        /\ ~last_call.returned => ~connected

(***************************************************************************)
(* Properties of the metadata cache                                        *)
(***************************************************************************)

\* C17: load_schema_metadata never propagates an error: a load that fails at
\* engine creation, at the connection or at any query leaves the empty
\* snapshot in the cache, the same value a schema without tables gives.
C17_FailedLoadIsEmpty ==
    /\ \A key \in DOMAIN loads \cap DOMAIN schema_metadata :
          loads[key].fault /= "none" => schema_metadata[key] = EmptySnapshot
    /\ \A schema \in SchemaNames :
          SchemaTables(schema) = <<>> =>
              load_schema_metadata(schema, "none") = EmptySnapshot

\* a load of app, which has tables, failed at the columns query
C17_Witness ==
    /\ SchemaTables("app") /= <<>>
    /\ "QA_app" \in DOMAIN loads \cap DOMAIN schema_metadata
    /\ loads["QA_app"].fault = "columns_query"
    /\ schema_metadata["QA_app"] = EmptySnapshot

\* C18: within one connection schema metadata is loaded at most once per
\* (environment, schema), whatever sequence of ERD generation, query-tab,
\* impact-analysis and environment-compare operations runs.
C18_LoadedOncePerKey ==
    \A key \in DOMAIN loads : loads[key].count <= 1

\* a successful connect: the one step that empties the cache
Cleared ==
    /\ schema_metadata' = <<>>
    /\ loads' = <<>>
    /\ connected'
    /\ last_call'.op = "connect" /\ last_call'.failure = "none"

\* a step of the compare tab, which neither reads nor writes the cache
CompareStep ==
    /\ schema_metadata' = schema_metadata
    /\ erd' = erd
    /\ last_call' = last_call

\* a schema that has tables and an empty snapshot in the cache: its load failed
FailedLoadCached(schema) ==
    /\ SchemaTables(schema) /= <<>>
    /\ CacheKey(schema) \in DOMAIN schema_metadata
    /\ schema_metadata[CacheKey(schema)] = EmptySnapshot

(***************************************************************************)
(* Properties of organization scanning                                     *)
(***************************************************************************)

\* the repositories whose future the caller did not collect
Uncollected == DOMAIN org.future \ Range(org.collected)

\* C19: once the overall budget is exceeded a worker that is still running is
\* abandoned: _analyze_repositories_parallel returns without having waited
\* for it, and its files are not in the combined result.
C19_SlowWorkerAbandoned ==
    (org.pc = "returned" /\ org.timed_out) =>
        /\ org.waited_for = {}
        /\ \A f \in Range(org.combined.files) : f.repository \notin Uncollected

\* the tagged files a repository contributes when its worker succeeds
FilesOf(repo_name) == analyze_single_repo(repo_name, "ok", org.plan)

\* the concatenation of the contributions of the repositories of a list
RECURSIVE Contributions(_)
Contributions(repos) ==
    IF repos = <<>> THEN <<>>
    ELSE (IF org.tree[Head(repos)] = "ok" THEN FilesOf(Head(repos)) ELSE <<>>)
             \o Contributions(Tail(repos))

\* C20: a repository whose fetch or parse fails never fails the operation and
\* never affects the others: the combined result holds exactly the files of
\* the repositories whose worker succeeded and was collected within the
\* budget, each tagged with its repository name and with its path prefixed
\* by that name, and no file of a failed repository.
C20_FailuresIsolated ==
    /\ org.combined.files = Contributions(org.collected)
    /\ \A r \in Range(org.collected) : org.future[r] = "done"
    /\ \A f \in Range(org.combined.files) :
          /\ f.repository \in Range(org.collected)
          /\ org.tree[f.repository] = "ok"
          /\ \E item \in Range(RepoTree(f.repository)) :
                f.path = f.repository \o "/" \o item.path
    /\ (org.pc = "returned" /\ ~org.timed_out) => Range(org.collected) = Range(org.repos)
    /\ org.pc /= "idle" => org.combined.total_repos = Len(org.repos)

\* the run returned with one repository failed by status, one by an exception
\* and the files of a third in the result
C20_Witness ==
    /\ org.pc = "returned"
    /\ \E a, b, c \in Range(org.collected) :
          /\ org.tree[a] = "status_404"
          /\ org.tree[b] = "raises"
          /\ org.tree[c] = "ok"
          /\ \E f \in Range(org.combined.files) : f.repository = c

\* the repositories whose worker is inside analyze_single_repo
Running == {r \in DOMAIN org.future : org.future[r] = "running"}

\* the results of the collected futures, in the order of collection
RECURSIVE Gathered(_)
Gathered(repos) ==
    IF repos = <<>> THEN <<>> ELSE org.result[Head(repos)] \o Gathered(Tail(repos))

\* C21: at most 5 per-repository fetches run at once, each active repository
\* is analysed at most once, the combined list holds what the aggregating
\* caller appended, result by result; at most 10 repositories are scanned, at
\* most 20 files come from each, so the combined result never exceeds 200 files.
C21_PoolBounded ==
    /\ Cardinality(Running) <= MaxWorkers
    /\ \A r \in DOMAIN org.starts : org.starts[r] <= 1
    /\ \A i, j \in 1..Len(org.repos) : org.repos[i] = org.repos[j] => i = j
    /\ Len(org.repos) <= ActiveReposCap
    /\ \A r \in DOMAIN org.result : Len(org.result[r]) <= RepoFilesCap
    /\ org.combined.files = Gathered(org.collected)
    /\ Len(org.combined.files) <= ActiveReposCap * RepoFilesCap

\* five workers run and a sixth repository waits in the queue
C21_Witness ==
    /\ Cardinality(Running) = MaxWorkers
    /\ \E r \in DOMAIN org.future : org.future[r] = "queued"
    /\ Len(org.repos) > MaxWorkers

vars == <<erdVars, diffVars, scanVars, sessVars, envVars, roleVars>>

\* C29: the empty snapshot a failed load left in the cache stays there until
\* a successful connect empties the cache; no ERD generation, query-tab or
\* impact-analysis step loads that schema again, an ERD generated meanwhile
\* has no table_info of the schema and the query tab shows no tables for it.
C29_FailedLoadReused ==
    [][\A schema \in SchemaNames :
          FailedLoadCached(schema) =>
              \/ Cleared
              \/ /\ CacheKey(schema) \in DOMAIN schema_metadata'
                 /\ schema_metadata'[CacheKey(schema)] = EmptySnapshot
                 /\ CompareStep \/ loads'[CacheKey(schema)] = loads[CacheKey(schema)]
                 /\ erd' /= erd => \A k \in DOMAIN erd'.table_info : k[1] /= schema
                 /\ (last_call'.op = "query" /\ last_call'.schema = schema)
                        => ~last_call'.shown]_vars

\* a load of app failed once; the query tab and an ERD generation both ran on
\* the cached empty snapshot, and app was loaded that one time only
C29_Witness ==
    /\ FailedLoadCached("app")
    /\ loads[CacheKey("app")] = [count |-> 1, fault |-> "connect"]
    /\ last_call.op = "query" /\ last_call.schema = "app" /\ ~last_call.shown
    /\ erd.stage = "no_active" /\ "app" \in Range(erd.sel)

InitErd == ErdInit /\ DiffIdle /\ ScanIdle /\ SessionUp /\ LookupIdle

SpecErd == InitErd /\ [][ErdNext]_vars

InitDiff == ErdIdle /\ DiffInit /\ ScanIdle /\ SessionUp /\ LookupIdle

SpecDiff == InitDiff /\ [][DiffNext]_vars

InitScan == ErdIdle /\ DiffIdle /\ ScanInit /\ SessionUp /\ LookupIdle

SpecScan == InitScan /\ [][ScanNext]_vars

SpecWide == InitScan /\ [][WideNext]_vars

InitConn == ErdIdle /\ DiffIdle /\ ScanIdle /\ ConnInit /\ LookupIdle

SpecConn == InitConn /\ [][ConnNext]_vars

InitOrg == ErdIdle /\ DiffIdle /\ ScanIdle /\ SessionUp /\ LookupIdle

SpecOrg == InitOrg /\ [][OrgNext]_vars

SpecPool == InitOrg /\ [][PoolNext]_vars

InitTabs == TabsInit /\ DiffIdle /\ ScanIdle /\ SessionUp /\ LookupIdle

SpecTabs == InitTabs /\ [][TabsNext]_vars

InitRoles == ErdIdle /\ DiffIdle /\ ScanIdle /\ SessionUp /\ RolesInit

SpecRoles == InitRoles /\ [][RolesNext]_vars

SpecEnv == InitConn /\ [][EnvNext]_vars

InitCache == CacheInit /\ ScanIdle /\ SessionUp /\ LookupIdle

SpecCache == InitCache /\ [][CacheNext]_vars
====
